---- MODULE Spec2Model ----
(***************************************************************************)
(* Model of the IKAPE prediction services: backend/predict_api.py (the     *)
(* extended schema, endpoints /predict and /predict/batch) and             *)
(* api/index.py (the simple schema, /api/predict and /api/predict/batch).  *)
(*                                                                         *)
(* Numbers.  A Python float is modelled as an integer count of grid units  *)
(* of 10^-GridDigits: an arithmetic result that is not on the grid is      *)
(* rounded to the nearest grid value, ties to even, as IEEE-754 rounds to  *)
(* the nearest representable double.  Addition and comparison of grid      *)
(* values are exact.  Model outputs are finite values of ordinary          *)
(* magnitude; infinities, NaN outputs and overflow of the float range are  *)
(* outside the modelled range.                                             *)
(***************************************************************************)
EXTENDS Integers, Sequences, FiniteSets, TLC

VARIABLES variant, models_loaded, models, op, req, resp, log, threads,
          model_dir, train

vars == <<variant, models_loaded, models, op, req, resp, log, threads, model_dir, train>>

(***************************************************************************)
(* Bounds of the model.                                                    *)
(***************************************************************************)
\* decimal digits kept by the float grid (a value is a multiple of 10^-GridDigits)
GridDigits == 5
\* longest batch of samples enumerated
MaxBatch == 2
\* training runs in one behaviour
MaxRuns == 2

Scale == 10 ^ GridDigits

\* the float whose value is the integer n
Flt(n) == n * Scale

(***************************************************************************)
(* Float arithmetic on the grid.                                           *)
(***************************************************************************)
\* quotient and remainder of (v * 10^k) / t by long division, one decimal
\* digit per step, so that no intermediate product leaves the integer range
RECURSIVE LongDiv(_, _, _, _)
LongDiv(q, r, t, k) ==
    IF k = 0 THEN <<q, r>>
    ELSE LongDiv(10 * q + ((10 * r) \div t), (10 * r) % t, t, k - 1)

\* round-half-even of the exact quotient whose floor is qr[1], remainder qr[2]
RoundHalfEven(qr, t) ==
    IF 2 * qr[2] > t THEN qr[1] + 1
    ELSE IF 2 * qr[2] < t THEN qr[1]
    ELSE IF qr[1] % 2 = 0 THEN qr[1] ELSE qr[1] + 1

\* (v / total) * 100.0 for 0 <= v, 0 < total: the grid value nearest to the
\* exact percentage
PctOfTotal(v, total) ==
    RoundHalfEven(LongDiv(v \div total, v % total, total, GridDigits + 2), total)

\* np.clip(v, 0.0, None)
ClipLow(v) == IF v < 0 THEN 0 ELSE v

\* max(v, 0.0)
MaxZero(v) == IF v < 0 THEN 0 ELSE v

\* round(v, 3) for v >= 0: the nearest multiple of 0.001, ties to even
Round3(v) ==
    LET m == Scale \div 1000
    IN  m * RoundHalfEven(<<v \div m, v % m>>, m)

(***************************************************************************)
(* Prediction post-processor.                                              *)
(***************************************************************************)
\* a plausible slip: the clipped values are returned without rescaling
NormalizeNoRescale(fine, premium, commercial) ==
    <<ClipLow(fine), ClipLow(premium), ClipLow(commercial)>>

\* a plausible slip: the total is taken before clipping
NormalizeClipLate(fine, premium, commercial) ==
    LET total == fine + premium + commercial
    IN  IF total <= 0 THEN <<0, 0, 0>>
        ELSE <<PctOfTotal(ClipLow(fine), total),
               PctOfTotal(ClipLow(premium), total),
               PctOfTotal(ClipLow(commercial), total)>>

\* a plausible slip: no clipping of negative components at all
NormalizeNoClip(fine, premium, commercial) ==
    LET total == fine + premium + commercial
        Part(v) == IF v < 0 THEN 0 - PctOfTotal(0 - v, total)
                   ELSE PctOfTotal(v, total)
    IN  IF total <= 0 THEN <<0, 0, 0>>
        ELSE <<Part(fine), Part(premium), Part(commercial)>>

_normalize_grade_triplet(fine, premium, commercial) ==
    LET values == <<ClipLow(fine), ClipLow(premium), ClipLow(commercial)>>
        total == values[1] + values[2] + values[3]
    IN  IF total <= 0 THEN <<0, 0, 0>>
        ELSE <<PctOfTotal(values[1], total),
               PctOfTotal(values[2], total),
               PctOfTotal(values[3], total)>>

\* a max that keeps the last of the largest
DominantGradeLastWins(fine, premium, commercial) ==
    IF commercial >= fine /\ commercial >= premium THEN "Commercial"
    ELSE IF premium >= fine THEN "Premium"
    ELSE "Fine"

\* max(grades, key=grades.get): the first largest, in the order Fine,
\* Premium, Commercial
DominantGrade(fine, premium, commercial) ==
    IF fine >= premium /\ fine >= commercial THEN "Fine"
    ELSE IF premium >= commercial THEN "Premium"
    ELSE "Commercial"

_derive_grade_labels(fine, premium, commercial) ==
    LET dominant_grade == DominantGrade(fine, premium, commercial)
        dominant_value == CASE dominant_grade = "Fine" -> fine
                            [] dominant_grade = "Premium" -> premium
                            [] OTHER -> commercial
        grade_label ==
            IF dominant_value >= Flt(55)
                THEN (CASE dominant_grade = "Fine" -> "Fine Dominant"
                        [] dominant_grade = "Premium" -> "Premium Dominant"
                        [] OTHER -> "Commercial Dominant")
            ELSE IF fine + premium >= Flt(70) THEN "High-Quality Mix"
            ELSE IF commercial >= Flt(45) THEN "Commercial Mix"
            ELSE "Balanced Mix"
    IN  [dominant_grade |-> dominant_grade, grade_label |-> grade_label]

(***************************************************************************)
(* Scalars.  A JSON scalar received in a request, and a cell of an         *)
(* assembled Feature Record, is a record [k, b, n, s]:                     *)
(*   k = "none"   None                                                     *)
(*   k = "bool"   b is the boolean                                         *)
(*   k = "int"    n is the integer                                         *)
(*   k = "float"  n is the float, in grid units                            *)
(*   k = "nan"    the float NaN                                            *)
(*   k = "str"    s is the text, a sequence of one-character strings       *)
(*   k = "huge"   the integer 10**309, beyond the range of a float         *)
(* A coercion that raises gives, in place of a value,                      *)
(*   k = "raise"  s holds the type of the exception                        *)
(***************************************************************************)
PyNone == [k |-> "none", b |-> FALSE, n |-> 0, s |-> <<>>]
PyBool(x) == [k |-> "bool", b |-> x, n |-> 0, s |-> <<>>]
PyInt(x) == [k |-> "int", b |-> FALSE, n |-> x, s |-> <<>>]
PyFloat(x) == [k |-> "float", b |-> FALSE, n |-> x, s |-> <<>>]
PyNaN == [k |-> "nan", b |-> FALSE, n |-> 0, s |-> <<>>]
PyStr(x) == [k |-> "str", b |-> FALSE, n |-> 0, s |-> x]
PyHuge == [k |-> "huge", b |-> FALSE, n |-> 0, s |-> <<>>]
PyRaise(type) == [k |-> "raise", b |-> FALSE, n |-> 0, s |-> <<type>>]

(***************************************************************************)
(* Text: str.strip, str.lower, str.startswith, str.replace, str() and      *)
(* float() of the Python runtime, on sequences of characters.              *)
(***************************************************************************)
UpperCase == <<"A", "B", "C", "D", "E", "F", "G", "H", "I", "J", "K", "L", "M",
               "N", "O", "P", "Q", "R", "S", "T", "U", "V", "W", "X", "Y", "Z">>
LowerCase == <<"a", "b", "c", "d", "e", "f", "g", "h", "i", "j", "k", "l", "m",
               "n", "o", "p", "q", "r", "s", "t", "u", "v", "w", "x", "y", "z">>
Digits == <<"0", "1", "2", "3", "4", "5", "6", "7", "8", "9">>
WhiteSpace == {" ", "\t", "\n"}

IndexIn(c, seq) ==
    IF \E i \in 1..Len(seq) : seq[i] = c
        THEN CHOOSE i \in 1..Len(seq) :
                seq[i] = c /\ \A j \in 1..(i - 1) : seq[j] # c
        ELSE 0

LowerChar(c) == IF IndexIn(c, UpperCase) > 0 THEN LowerCase[IndexIn(c, UpperCase)] ELSE c

\* text.lower()
Lower(text) == [i \in 1..Len(text) |-> LowerChar(text[i])]

\* text.strip()
Strip(text) ==
    LET keep == {i \in 1..Len(text) : text[i] \notin WhiteSpace}
    IN  IF keep = {} THEN <<>>
        ELSE LET lo == CHOOSE i \in keep : \A j \in keep : i <= j
                 hi == CHOOSE i \in keep : \A j \in keep : i >= j
             IN  SubSeq(text, lo, hi)

\* text.startswith(prefix)
StartsWith(text, prefix) ==
    Len(text) >= Len(prefix) /\ SubSeq(text, 1, Len(prefix)) = prefix

\* text.replace(old, new) for one-character old and new
ReplaceChar(text, old, new) ==
    [i \in 1..Len(text) |-> IF text[i] = old THEN new ELSE text[i]]

\* the decimal digits of the integer n >= 0
RECURSIVE NatDigits(_)
NatDigits(n) ==
    IF n < 10 THEN <<Digits[n + 1]>>
    ELSE Append(NatDigits(n \div 10), Digits[(n % 10) + 1])

\* the k decimal digits of a fraction f < 10^k, trailing zeros dropped, at
\* least one digit kept
RECURSIVE FracDigits(_, _)
FracDigits(f, k) ==
    IF k = 1 THEN <<Digits[f + 1]>>
    ELSE IF f % 10 = 0 THEN FracDigits(f \div 10, k - 1)
    ELSE Append(FracDigits(f \div 10, k - 1), Digits[(f % 10) + 1])

\* str(value): "None", "True"/"False", the digits of an int, the repr of a
\* float ("6.2", "1.0", "nan"), the 310 digits of 10**309, the text itself
str(value) ==
    CASE value.k = "none" -> <<"N", "o", "n", "e">>
      [] value.k = "bool" -> IF value.b THEN <<"T", "r", "u", "e">>
                             ELSE <<"F", "a", "l", "s", "e">>
      [] value.k = "int" -> IF value.n < 0 THEN <<"-">> \o NatDigits(0 - value.n)
                            ELSE NatDigits(value.n)
      [] value.k = "float" ->
            LET a == IF value.n < 0 THEN 0 - value.n ELSE value.n
                sign == IF value.n < 0 THEN <<"-">> ELSE <<>>
            IN  sign \o NatDigits(a \div Scale) \o <<".">>
                     \o FracDigits(a % Scale, GridDigits)
      [] value.k = "nan" -> <<"n", "a", "n">>
      [] value.k = "huge" -> [i \in 1..310 |-> IF i = 1 THEN "1" ELSE "0"]
      [] OTHER -> value.s

IsDigit(c) == IndexIn(c, Digits) > 0

\* the integer written by a sequence of digits
RECURSIVE DigitsValue(_)
DigitsValue(ds) ==
    IF ds = <<>> THEN 0
    ELSE 10 * DigitsValue(SubSeq(ds, 1, Len(ds) - 1)) + (IndexIn(ds[Len(ds)], Digits) - 1)

\* the fraction written by a sequence of digits after the point, in grid
\* units (digits beyond the grid are dropped)
FractionValue(ds) ==
    LET kept == SubSeq(ds, 1, IF Len(ds) < GridDigits THEN Len(ds) ELSE GridDigits)
    IN  DigitsValue(kept) * (10 ^ (GridDigits - Len(kept)))

\* the float written by an integer part and a fraction part, negated if neg
ParseDigits(ip, fp, neg) ==
    IF /\ Len(ip) + Len(fp) > 0
       /\ \A i \in 1..Len(ip) : IsDigit(ip[i])
       /\ \A i \in 1..Len(fp) : IsDigit(fp[i])
        THEN [ok |-> TRUE,
              v |-> PyFloat((IF neg THEN -1 ELSE 1)
                               * (DigitsValue(ip) * Scale + FractionValue(fp)))]
        ELSE [ok |-> FALSE, v |-> PyNaN]

\* the unsigned text u, whose first point, if any, is at index dot
ParseUnsigned(u, dot, neg) ==
    IF u = <<"n", "a", "n">> THEN [ok |-> TRUE, v |-> PyNaN]
    ELSE IF dot = 0 THEN ParseDigits(u, <<>>, neg)
    ELSE ParseDigits(SubSeq(u, 1, dot - 1), SubSeq(u, dot + 1, Len(u)), neg)

\* the stripped, lower-cased text t
ParseSigned(t) ==
    IF Len(t) > 0 /\ t[1] \in {"+", "-"}
        THEN ParseUnsigned(Tail(t), IndexIn(".", Tail(t)), t[1] = "-")
        ELSE ParseUnsigned(t, IndexIn(".", t), FALSE)

\* float(text): [ok |-> TRUE, v |-> cell] for [sign] digits [. digits],
\* [sign] . digits and "nan" (any case, surrounding white space ignored);
\* [ok |-> FALSE] where float() raises ValueError.  Exponents, underscores
\* and infinities do not occur in the enumerated inputs.
ParseFloat(text) == ParseSigned(Lower(Strip(text)))

(***************************************************************************)
(* The words of the coercion tables, as texts: W.often is "often",         *)
(* W.non_dash_organic is "non-organic", W.non_under_organic is             *)
(* "non_organic", W.one is "1", W.zero is "0".                             *)
(***************************************************************************)
W == [
    never |-> <<"n", "e", "v", "e", "r">>,
    rarely |-> <<"r", "a", "r", "e", "l", "y">>,
    sometimes |-> <<"s", "o", "m", "e", "t", "i", "m", "e", "s">>,
    often |-> <<"o", "f", "t", "e", "n">>,
    organic |-> <<"o", "r", "g", "a", "n", "i", "c">>,
    non_dash_organic |-> <<"n", "o", "n", "-", "o", "r", "g", "a", "n", "i", "c">>,
    non_under_organic |-> <<"n", "o", "n", "_", "o", "r", "g", "a", "n", "i", "c">>,
    nonorganic |-> <<"n", "o", "n", "o", "r", "g", "a", "n", "i", "c">>,
    synthetic |-> <<"s", "y", "n", "t", "h", "e", "t", "i", "c">>,
    none |-> <<"n", "o", "n", "e">>,
    yes |-> <<"y", "e", "s">>,
    true |-> <<"t", "r", "u", "e">>,
    one |-> <<"1">>,
    no |-> <<"n", "o">>,
    false |-> <<"f", "a", "l", "s", "e">>,
    zero |-> <<"0">>,
    natural |-> <<"n", "a", "t", "u", "r", "a", "l">>,
    chemical |-> <<"c", "h", "e", "m", "i", "c", "a", "l">>,
    inorganic |-> <<"i", "n", "o", "r", "g", "a", "n", "i", "c">>,
    bio |-> <<"b", "i", "o">>,
    conventional |-> <<"c", "o", "n", "v", "e", "n", "t", "i", "o", "n", "a", "l">>,
    seldom |-> <<"s", "e", "l", "d", "o", "m">>,
    occasionally |-> <<"o", "c", "c", "a", "s", "i", "o", "n", "a", "l", "l", "y">>,
    moderate |-> <<"m", "o", "d", "e", "r", "a", "t", "e">>,
    frequently |-> <<"f", "r", "e", "q", "u", "e", "n", "t", "l", "y">>,
    regularly |-> <<"r", "e", "g", "u", "l", "a", "r", "l", "y">>,
    always |-> <<"a", "l", "w", "a", "y", "s">>,
    present |-> <<"p", "r", "e", "s", "e", "n", "t">>,
    available |-> <<"a", "v", "a", "i", "l", "a", "b", "l", "e">>,
    low |-> <<"l", "o", "w">>,
    medium |-> <<"m", "e", "d", "i", "u", "m">>,
    high |-> <<"h", "i", "g", "h">>,
    severe |-> <<"s", "e", "v", "e", "r", "e">>,
    extra_dash_small |-> <<"e", "x", "t", "r", "a", "-", "s", "m", "a", "l", "l">>,
    small |-> <<"s", "m", "a", "l", "l">>,
    large |-> <<"l", "a", "r", "g", "e">>,
    extra_dash_large |-> <<"e", "x", "t", "r", "a", "-", "l", "a", "r", "g", "e">>
]

(***************************************************************************)
(* Canonicalization registry of the two service variants.                  *)
(***************************************************************************)
\* backend/modeling.py FEATURE_KEYS (the extended schema)
BACKEND_FEATURE_KEYS == <<
    "farm_id", "cluster_id", "farm_size_ha", "elevation_m",
    "farm_cluster_count", "cluster_plant_share_pct",
    "cluster_tree_density_per_sqm", "plant_age_years", "number_of_plants",
    "fertilizer_type", "fertilizer_frequency", "pesticide_type",
    "pesticide_frequency", "pruning_interval_months", "shade_tree_present",
    "soil_ph", "avg_temp_c", "avg_rainfall_mm", "avg_humidity_pct",
    "flood_risk_level", "flood_events_count", "pre_total_trees",
    "pre_yield_kg", "pre_grade_fine", "pre_grade_premium",
    "pre_grade_commercial", "previous_fine_pct", "previous_premium_pct",
    "previous_commercial_pct", "bean_size_mm", "bean_screen_size",
    "bean_moisture", "defect_black_pct", "defect_mold_infested_pct",
    "defect_immature_pct", "defect_broken_pct", "defect_dried_cherries_pct",
    "defect_foreign_matter_pct", "pns_total_defects_pct" >>

\* api/index.py FEATURE_KEYS (the simple schema)
API_FEATURE_KEYS == <<
    "plant_age_months", "number_of_plants", "fertilizer_type",
    "fertilizer_frequency", "pesticide_type", "pesticide_frequency",
    "pruning_interval_months", "shade_tree_present", "soil_ph", "avg_temp_c",
    "avg_rainfall_mm", "avg_humidity_pct", "previous_yield_per_tree",
    "previous_fine_pct", "previous_premium_pct", "previous_commercial_pct",
    "trees_productive_pct", "yield_trend" >>

\* the order in which api/index.py _normalize_features fills its dictionary,
\* which is the column order of the DataFrame it returns
API_NORMALIZED_ORDER == <<
    "plant_age_months", "number_of_plants", "pruning_interval_months",
    "soil_ph", "avg_temp_c", "avg_rainfall_mm", "avg_humidity_pct",
    "previous_yield_per_tree", "previous_fine_pct", "previous_premium_pct",
    "previous_commercial_pct", "trees_productive_pct", "yield_trend",
    "fertilizer_type", "fertilizer_frequency", "pesticide_type",
    "pesticide_frequency", "shade_tree_present" >>

FEATURE_KEYS(v) == IF v = "backend" THEN BACKEND_FEATURE_KEYS ELSE API_FEATURE_KEYS

Range(seq) == {seq[i] : i \in 1..Len(seq)}

FREQUENCY_KEYS == {"fertilizer_frequency", "pesticide_frequency"}
TYPE_KEYS == {"fertilizer_type", "pesticide_type"}
\* the keys backend _feature_dataframe treats as categorical
DATAFRAME_CATEGORICAL_KEYS ==
    FREQUENCY_KEYS \cup TYPE_KEYS
        \cup {"shade_tree_present", "flood_risk_level", "bean_screen_size"}
IDENTIFIER_KEYS == {"farm_id", "cluster_id"}

FLOOD_RISK_CANONICAL == {W.none, W.low, W.medium, W.high, W.severe}
BEAN_SCREEN_CANONICAL ==
    {W.extra_dash_small, W.small, W.medium, W.large, W.extra_dash_large}

(***************************************************************************)
(* Alias map of the extended schema: for each canonical key the column     *)
(* names, as texts, under which a dataset may hold it, in the order they   *)
(* are tried.                                                              *)
(***************************************************************************)
\* backend/modeling.py FEATURE_ALIASES
FEATURE_ALIASES == [
    farm_id |-> <<
        <<"f", "a", "r", "m", "_", "i", "d">>,
        <<"f", "a", "r", "m", "i", "d">>>>,
    cluster_id |-> <<
        <<"c", "l", "u", "s", "t", "e", "r", "_", "i", "d">>,
        <<"c", "l", "u", "s", "t", "e", "r", "i", "d">>>>,
    farm_size_ha |-> <<
        <<"f", "a", "r", "m", "_", "s", "i", "z", "e", "_", "h", "a">>,
        <<"f", "a", "r", "m", "_", "a", "r", "e", "a", "_", "h", "a">>,
        <<"f", "a", "r", "m", "_", "a", "r", "e", "a">>>>,
    elevation_m |-> <<
        <<"e", "l", "e", "v", "a", "t", "i", "o", "n", "_", "m">>,
        <<"f", "a", "r", "m", "_", "e", "l", "e", "v", "a", "t", "i", "o", "n", "_", "m">>,
        <<"e", "l", "e", "v", "a", "t", "i", "o", "n">>>>,
    farm_cluster_count |-> <<
        <<"f", "a", "r", "m", "_", "c", "l", "u", "s", "t", "e", "r", "_", "c", "o", "u", "n", "t">>,
        <<"c", "l", "u", "s", "t", "e", "r", "s", "_", "p", "e", "r", "_", "f", "a", "r", "m">>,
        <<"c", "l", "u", "s", "t", "e", "r", "_", "c", "o", "u", "n", "t", "_", "f", "a", "r", "m">>>>,
    cluster_plant_share_pct |-> <<
        <<"c", "l", "u", "s", "t", "e", "r", "_", "p", "l", "a", "n", "t", "_", "s", "h", "a", "r", "e", "_", "p", "c", "t">>,
        <<"p", "l", "a", "n", "t", "_", "s", "h", "a", "r", "e", "_", "p", "c", "t">>,
        <<"p", "l", "a", "n", "t", "s", "_", "c", "l", "u", "s", "t", "e", "r", "_", "s", "h", "a", "r", "e", "_", "p", "c", "t">>>>,
    cluster_tree_density_per_sqm |-> <<
        <<"c", "l", "u", "s", "t", "e", "r", "_", "t", "r", "e", "e", "_", "d", "e", "n", "s", "i", "t", "y", "_", "p", "e", "r", "_", "s", "q", "m">>,
        <<"c", "l", "u", "s", "t", "e", "r", "_", "t", "r", "e", "e", "_", "d", "e", "n", "s", "i", "t", "y">>,
        <<"t", "r", "e", "e", "s", "_", "p", "e", "r", "_", "s", "q", "m">>>>,
    plant_age_years |-> <<
        <<"p", "l", "a", "n", "t", "_", "a", "g", "e", "_", "y", "e", "a", "r", "s">>,
        <<"p", "l", "a", "n", "t", "_", "a", "g", "e", "_", "y", "r", "s">>,
        <<"p", "l", "a", "n", "t", "_", "a", "g", "e", "_", "y", "e", "a", "r">>>>,
    number_of_plants |-> <<
        <<"n", "u", "m", "b", "e", "r", "_", "o", "f", "_", "p", "l", "a", "n", "t", "s">>,
        <<"p", "l", "a", "n", "t", "_", "c", "o", "u", "n", "t">>,
        <<"t", "o", "t", "a", "l", "_", "p", "l", "a", "n", "t", "s">>>>,
    fertilizer_type |-> <<
        <<"f", "e", "r", "t", "i", "l", "i", "z", "e", "r", "_", "t", "y", "p", "e">>>>,
    fertilizer_frequency |-> <<
        <<"f", "e", "r", "t", "i", "l", "i", "z", "e", "r", "_", "f", "r", "e", "q", "u", "e", "n", "c", "y">>>>,
    pesticide_type |-> <<
        <<"p", "e", "s", "t", "i", "c", "i", "d", "e", "_", "t", "y", "p", "e">>>>,
    pesticide_frequency |-> <<
        <<"p", "e", "s", "t", "i", "c", "i", "d", "e", "_", "f", "r", "e", "q", "u", "e", "n", "c", "y">>>>,
    pruning_interval_months |-> <<
        <<"p", "r", "u", "n", "i", "n", "g", "_", "i", "n", "t", "e", "r", "v", "a", "l", "_", "m", "o", "n", "t", "h", "s">>,
        <<"p", "r", "u", "n", "i", "n", "g", "_", "i", "n", "t", "e", "r", "v", "a", "l">>,
        <<"p", "r", "u", "n", "i", "n", "g", "_", "m", "o", "n", "t", "h", "s">>>>,
    shade_tree_present |-> <<
        <<"s", "h", "a", "d", "e", "_", "t", "r", "e", "e", "_", "p", "r", "e", "s", "e", "n", "t">>,
        <<"s", "h", "a", "d", "e", "_", "t", "r", "e", "e", "s">>,
        <<"h", "a", "s", "_", "s", "h", "a", "d", "e", "_", "t", "r", "e", "e">>>>,
    soil_ph |-> <<
        <<"s", "o", "i", "l", "_", "p", "h">>,
        <<"s", "o", "i", "l", "_", "p", "_", "h">>,
        <<"p", "h">>>>,
    avg_temp_c |-> <<
        <<"a", "v", "g", "_", "t", "e", "m", "p", "_", "c">>,
        <<"m", "o", "n", "t", "h", "l", "y", "_", "t", "e", "m", "p", "e", "r", "a", "t", "u", "r", "e">>,
        <<"a", "v", "e", "r", "a", "g", "e", "_", "t", "e", "m", "p", "e", "r", "a", "t", "u", "r", "e", "_", "c">>>>,
    avg_rainfall_mm |-> <<
        <<"a", "v", "g", "_", "r", "a", "i", "n", "f", "a", "l", "l", "_", "m", "m">>,
        <<"r", "a", "i", "n", "f", "a", "l", "l">>,
        <<"r", "a", "i", "n", "f", "a", "l", "l", "_", "m", "m">>>>,
    avg_humidity_pct |-> <<
        <<"a", "v", "g", "_", "h", "u", "m", "i", "d", "i", "t", "y", "_", "p", "c", "t">>,
        <<"h", "u", "m", "i", "d", "i", "t", "y">>,
        <<"h", "u", "m", "i", "d", "i", "t", "y", "_", "p", "c", "t">>>>,
    flood_risk_level |-> <<
        <<"f", "l", "o", "o", "d", "_", "r", "i", "s", "k", "_", "l", "e", "v", "e", "l">>,
        <<"f", "l", "o", "o", "d", "_", "r", "i", "s", "k">>>>,
    flood_events_count |-> <<
        <<"f", "l", "o", "o", "d", "_", "e", "v", "e", "n", "t", "s", "_", "c", "o", "u", "n", "t">>,
        <<"f", "l", "o", "o", "d", "_", "c", "o", "u", "n", "t">>,
        <<"f", "l", "o", "o", "d", "_", "e", "v", "e", "n", "t", "s">>>>,
    pre_total_trees |-> <<
        <<"p", "r", "e", "_", "t", "o", "t", "a", "l", "_", "t", "r", "e", "e", "s">>,
        <<"p", "r", "e", "v", "i", "o", "u", "s", "_", "t", "o", "t", "a", "l", "_", "t", "r", "e", "e", "s">>>>,
    pre_yield_kg |-> <<
        <<"p", "r", "e", "_", "y", "i", "e", "l", "d", "_", "k", "g">>,
        <<"p", "r", "e", "v", "i", "o", "u", "s", "_", "y", "i", "e", "l", "d">>,
        <<"p", "r", "e", "v", "i", "o", "u", "s", "_", "y", "i", "e", "l", "d", "_", "k", "g">>>>,
    pre_grade_fine |-> <<
        <<"p", "r", "e", "_", "g", "r", "a", "d", "e", "_", "f", "i", "n", "e">>,
        <<"p", "r", "e", "v", "i", "o", "u", "s", "_", "g", "r", "a", "d", "e", "_", "f", "i", "n", "e">>,
        <<"f", "i", "n", "e", "_", "g", "r", "a", "d", "e", "_", "k", "g", "_", "b", "e", "f", "o", "r", "e">>>>,
    pre_grade_premium |-> <<
        <<"p", "r", "e", "_", "g", "r", "a", "d", "e", "_", "p", "r", "e", "m", "i", "u", "m">>,
        <<"p", "r", "e", "v", "i", "o", "u", "s", "_", "g", "r", "a", "d", "e", "_", "p", "r", "e", "m", "i", "u", "m">>,
        <<"p", "r", "e", "m", "i", "u", "m", "_", "g", "r", "a", "d", "e", "_", "k", "g", "_", "b", "e", "f", "o", "r", "e">>>>,
    pre_grade_commercial |-> <<
        <<"p", "r", "e", "_", "g", "r", "a", "d", "e", "_", "c", "o", "m", "m", "e", "r", "c", "i", "a", "l">>,
        <<"p", "r", "e", "v", "i", "o", "u", "s", "_", "g", "r", "a", "d", "e", "_", "c", "o", "m", "m", "e", "r", "c", "i", "a", "l">>,
        <<"c", "o", "m", "m", "e", "r", "c", "i", "a", "l", "_", "g", "r", "a", "d", "e", "_", "k", "g", "_", "b", "e", "f", "o", "r", "e">>>>,
    previous_fine_pct |-> <<
        <<"p", "r", "e", "v", "i", "o", "u", "s", "_", "f", "i", "n", "e", "_", "p", "c", "t">>,
        <<"g", "r", "a", "d", "e", "_", "f", "i", "n", "e">>,
        <<"f", "i", "n", "e", "_", "g", "r", "a", "d", "e", "_", "p", "c", "t", "_", "b", "e", "f", "o", "r", "e">>>>,
    previous_premium_pct |-> <<
        <<"p", "r", "e", "v", "i", "o", "u", "s", "_", "p", "r", "e", "m", "i", "u", "m", "_", "p", "c", "t">>,
        <<"g", "r", "a", "d", "e", "_", "p", "r", "e", "m", "i", "u", "m">>,
        <<"p", "r", "e", "m", "i", "u", "m", "_", "g", "r", "a", "d", "e", "_", "p", "c", "t", "_", "b", "e", "f", "o", "r", "e">>>>,
    previous_commercial_pct |-> <<
        <<"p", "r", "e", "v", "i", "o", "u", "s", "_", "c", "o", "m", "m", "e", "r", "c", "i", "a", "l", "_", "p", "c", "t">>,
        <<"g", "r", "a", "d", "e", "_", "c", "o", "m", "m", "e", "r", "c", "i", "a", "l">>,
        <<"c", "o", "m", "m", "e", "r", "c", "i", "a", "l", "_", "g", "r", "a", "d", "e", "_", "p", "c", "t", "_", "b", "e", "f", "o", "r", "e">>>>,
    bean_size_mm |-> <<
        <<"b", "e", "a", "n", "_", "s", "i", "z", "e", "_", "m", "m">>,
        <<"b", "e", "a", "n", "_", "s", "i", "z", "e">>,
        <<"b", "e", "a", "n", "_", "d", "i", "a", "m", "e", "t", "e", "r", "_", "m", "m">>>>,
    bean_screen_size |-> <<
        <<"b", "e", "a", "n", "_", "s", "c", "r", "e", "e", "n", "_", "s", "i", "z", "e">>,
        <<"s", "c", "r", "e", "e", "n", "_", "s", "i", "z", "e">>,
        <<"b", "e", "a", "n", "_", "s", "i", "z", "e", "_", "c", "l", "a", "s", "s">>>>,
    bean_moisture |-> <<
        <<"b", "e", "a", "n", "_", "m", "o", "i", "s", "t", "u", "r", "e">>,
        <<"b", "e", "a", "n", "_", "m", "o", "i", "s", "t", "u", "r", "e", "_", "p", "c", "t">>,
        <<"m", "o", "i", "s", "t", "u", "r", "e">>>>,
    defect_black_pct |-> <<
        <<"d", "e", "f", "e", "c", "t", "_", "b", "l", "a", "c", "k", "_", "p", "c", "t">>,
        <<"b", "l", "a", "c", "k", "_", "b", "e", "a", "n", "_", "p", "c", "t">>>>,
    defect_mold_infested_pct |-> <<
        <<"d", "e", "f", "e", "c", "t", "_", "m", "o", "l", "d", "_", "i", "n", "f", "e", "s", "t", "e", "d", "_", "p", "c", "t">>,
        <<"m", "o", "l", "d", "_", "i", "n", "f", "e", "s", "t", "e", "d", "_", "p", "c", "t">>,
        <<"d", "e", "f", "e", "c", "t", "_", "m", "o", "l", "d", "y", "_", "p", "c", "t">>>>,
    defect_immature_pct |-> <<
        <<"d", "e", "f", "e", "c", "t", "_", "i", "m", "m", "a", "t", "u", "r", "e", "_", "p", "c", "t">>,
        <<"i", "m", "m", "a", "t", "u", "r", "e", "_", "b", "e", "a", "n", "_", "p", "c", "t">>>>,
    defect_broken_pct |-> <<
        <<"d", "e", "f", "e", "c", "t", "_", "b", "r", "o", "k", "e", "n", "_", "p", "c", "t">>,
        <<"b", "r", "o", "k", "e", "n", "_", "b", "e", "a", "n", "_", "p", "c", "t">>>>,
    defect_dried_cherries_pct |-> <<
        <<"d", "e", "f", "e", "c", "t", "_", "d", "r", "i", "e", "d", "_", "c", "h", "e", "r", "r", "i", "e", "s", "_", "p", "c", "t">>,
        <<"d", "r", "i", "e", "d", "_", "c", "h", "e", "r", "r", "i", "e", "s", "_", "p", "c", "t">>>>,
    defect_foreign_matter_pct |-> <<
        <<"d", "e", "f", "e", "c", "t", "_", "f", "o", "r", "e", "i", "g", "n", "_", "m", "a", "t", "t", "e", "r", "_", "p", "c", "t">>,
        <<"f", "o", "r", "e", "i", "g", "n", "_", "m", "a", "t", "t", "e", "r", "_", "p", "c", "t">>>>,
    pns_total_defects_pct |-> <<
        <<"p", "n", "s", "_", "t", "o", "t", "a", "l", "_", "d", "e", "f", "e", "c", "t", "s", "_", "p", "c", "t">>,
        <<"t", "o", "t", "a", "l", "_", "d", "e", "f", "e", "c", "t", "s", "_", "p", "c", "t">>>>
]

TARGET_KEYS == <<"yield_kg", "fine_grade_pct", "premium_grade_pct", "commercial_grade_pct">>

\* backend/modeling.py TARGET_ALIASES
TARGET_ALIASES == [
    yield_kg |-> <<
        <<"y", "i", "e", "l", "d", "_", "k", "g">>,
        <<"c", "u", "r", "r", "e", "n", "t", "_", "y", "i", "e", "l", "d">>,
        <<"t", "a", "r", "g", "e", "t", "_", "y", "i", "e", "l", "d", "_", "k", "g">>,
        <<"p", "o", "s", "t", "_", "c", "u", "r", "r", "e", "n", "t", "_", "y", "i", "e", "l", "d">>>>,
    fine_grade_pct |-> <<
        <<"f", "i", "n", "e", "_", "g", "r", "a", "d", "e", "_", "p", "c", "t">>,
        <<"g", "r", "a", "d", "e", "_", "f", "i", "n", "e">>,
        <<"p", "o", "s", "t", "_", "g", "r", "a", "d", "e", "_", "f", "i", "n", "e">>,
        <<"f", "i", "n", "e", "_", "p", "c", "t">>>>,
    premium_grade_pct |-> <<
        <<"p", "r", "e", "m", "i", "u", "m", "_", "g", "r", "a", "d", "e", "_", "p", "c", "t">>,
        <<"g", "r", "a", "d", "e", "_", "p", "r", "e", "m", "i", "u", "m">>,
        <<"p", "o", "s", "t", "_", "g", "r", "a", "d", "e", "_", "p", "r", "e", "m", "i", "u", "m">>,
        <<"p", "r", "e", "m", "i", "u", "m", "_", "p", "c", "t">>>>,
    commercial_grade_pct |-> <<
        <<"c", "o", "m", "m", "e", "r", "c", "i", "a", "l", "_", "g", "r", "a", "d", "e", "_", "p", "c", "t">>,
        <<"g", "r", "a", "d", "e", "_", "c", "o", "m", "m", "e", "r", "c", "i", "a", "l">>,
        <<"p", "o", "s", "t", "_", "g", "r", "a", "d", "e", "_", "c", "o", "m", "m", "e", "r", "c", "i", "a", "l">>,
        <<"c", "o", "m", "m", "e", "r", "c", "i", "a", "l", "_", "p", "c", "t">>>>
]

\* re.sub(r"[^a-zA-Z0-9]+", "_", text): every run of other characters
\* becomes one underscore; done holds the result for text[1..i-1]
IsAlnum(c) == IndexIn(c, LowerCase) > 0 \/ IndexIn(c, UpperCase) > 0 \/ IsDigit(c)

\* the characters of text at the positions kept, "_" for one that is not a
\* letter or a digit
Underscored(text, kept) ==
    [k \in 1..Len(kept) |-> IF IsAlnum(text[kept[k]]) THEN text[kept[k]] ELSE "_"]

\* re.sub(r"[^a-zA-Z0-9]+", "_", text) and re.sub(r"_+", "_", ...): the
\* letters and digits are kept, and of every run of other characters the
\* first, as "_"
SubRuns(text) ==
    Underscored(text,
                SelectSeq([i \in 1..Len(text) |-> i],
                          LAMBDA i : IsAlnum(text[i]) \/ i = 1 \/ IsAlnum(text[i - 1])))

\* text.strip("_")
StripUnderscores(text) ==
    LET keep == {i \in 1..Len(text) : text[i] # "_"}
    IN  IF keep = {} THEN <<>>
        ELSE SubSeq(text, CHOOSE i \in keep : \A j \in keep : i <= j,
                          CHOOSE i \in keep : \A j \in keep : i >= j)

\* backend/modeling.py normalize_column_name
normalize_column_name(name) == StripUnderscores(SubRuns(Lower(Strip(name))))

\* a plausible slip: the loop has no break, so the last alias present wins
LastPresent(aliases, available) ==
    IF \E i \in 1..Len(aliases) : aliases[i] \in available
        THEN CHOOSE i \in 1..Len(aliases) :
                aliases[i] \in available
                /\ \A j \in (i + 1)..Len(aliases) : aliases[j] \notin available
        ELSE 0

\* the first alias of the list that is among the available columns, as its
\* index in the list, or 0
FirstPresent(aliases, available) ==
    IF \E i \in 1..Len(aliases) : aliases[i] \in available
        THEN CHOOSE i \in 1..Len(aliases) :
                aliases[i] \in available /\ \A j \in 1..(i - 1) : aliases[j] \notin available
        ELSE 0

\* backend/modeling.py resolve_aliases: the dictionary from each key that
\* has an alias among the columns to the first such alias
resolve_aliases(available_columns, alias_map) ==
    [canonical \in {key \in DOMAIN alias_map :
                        FirstPresent(alias_map[key], Range(available_columns)) > 0} |->
        alias_map[canonical][FirstPresent(alias_map[canonical], Range(available_columns))]]


(***************************************************************************)
(* Value coercion.                                                         *)
(***************************************************************************)
\* FREQ_MAP, then TYPE_MAP, then BOOL_MAP of the variant: the number bound to
\* a text, as an integer, or -1 when no table holds the text
TableNumber(v, text) ==
    CASE text = W.never -> 1
      [] text = W.rarely -> 2
      [] text = W.sometimes -> 3
      [] text = W.often -> 4
      [] text = W.organic -> 1
      [] text \in {W.non_dash_organic, W.non_under_organic, W.nonorganic} -> 2
      [] v = "api" /\ text = W.synthetic -> 2
      [] v = "api" /\ text = W.none -> 0
      [] text \in {W.yes, W.true, W.one} -> 1
      [] text \in {W.no, W.false, W.zero} -> 0
      [] OTHER -> -1

\* the end of the fallback chain: float(text), or 0.0 on ValueError
FloatOrZero(parsed) == IF parsed.ok THEN parsed.v ELSE PyFloat(0)

\* the chain of _to_number on the stripped, lower-cased text, n being what
\* the tables give for it
TextToNumber(text, n) ==
    IF text = <<>> THEN PyFloat(0)
    ELSE IF n >= 0 THEN PyFloat(Flt(n))
    ELSE FloatOrZero(ParseFloat(text))

\* a plausible slip: the text is trimmed but not lower-cased
NormalTextCased(value) == Strip(str(value))

\* str(value).strip().lower()
NormalText(value) == Lower(Strip(str(value)))

\* _to_number of variant v: a float cell
_to_number(v, value) ==
    CASE value.k = "none" -> PyFloat(0)
      [] value.k = "bool" -> PyFloat(IF value.b THEN Flt(1) ELSE 0)
      [] value.k = "int" -> PyFloat(Flt(value.n))
      [] value.k = "float" -> PyFloat(value.n)
      [] value.k = "nan" -> PyFloat(0)
      \* np.isnan of an integer outside the 64-bit range: TypeError
      [] value.k = "huge" -> PyRaise("TypeError")
      [] OTHER -> TextToNumber(NormalText(value), TableNumber(v, NormalText(value)))

\* the lists of _map_fertilizer_type
FertilizerTypeOf(text) ==
    IF text \in {W.organic, W.natural} THEN PyStr(W.organic)
    ELSE IF text \in {W.synthetic, W.chemical, W.non_dash_organic,
                      W.non_under_organic, W.nonorganic, W.inorganic}
        THEN PyStr(W.synthetic)
    ELSE PyStr(W.none)

\* api/index.py _map_fertilizer_type
_map_fertilizer_type(value) ==
    IF value.k = "none" THEN PyStr(W.none) ELSE FertilizerTypeOf(NormalText(value))

\* the lists of _map_pesticide_type
PesticideTypeOf(text) ==
    IF text \in {W.organic, W.natural, W.bio} THEN PyStr(W.organic)
    ELSE IF text \in {W.synthetic, W.chemical, W.conventional} THEN PyStr(W.synthetic)
    ELSE PyStr(W.none)

\* api/index.py _map_pesticide_type
_map_pesticide_type(value) ==
    IF value.k = "none" THEN PyStr(W.none) ELSE PesticideTypeOf(NormalText(value))

\* a plausible slip: the list of "sometimes" is tested before that of
\* "rarely", and both hold "occasionally"
FrequencyOfSometimesFirst(text) ==
    IF text \in {W.never, W.none, W.zero} THEN PyStr(W.never)
    ELSE IF text \in {W.sometimes, W.occasionally, W.moderate} THEN PyStr(W.sometimes)
    ELSE IF text \in {W.rarely, W.seldom, W.occasionally} THEN PyStr(W.rarely)
    ELSE IF text \in {W.often, W.frequently, W.regularly, W.always} THEN PyStr(W.often)
    ELSE PyStr(W.never)

\* the lists of _map_frequency, tested in the order of the code
FrequencyOf(text) ==
    IF text \in {W.never, W.none, W.zero} THEN PyStr(W.never)
    ELSE IF text \in {W.rarely, W.seldom, W.occasionally} THEN PyStr(W.rarely)
    ELSE IF text \in {W.sometimes, W.occasionally, W.moderate} THEN PyStr(W.sometimes)
    ELSE IF text \in {W.often, W.frequently, W.regularly, W.always} THEN PyStr(W.often)
    ELSE PyStr(W.never)

\* api/index.py _map_frequency
_map_frequency(value) ==
    IF value.k = "none" THEN PyStr(W.never) ELSE FrequencyOf(NormalText(value))

\* api/index.py _map_boolean
_map_boolean(value) ==
    IF value.k = "none" THEN PyBool(FALSE)
    ELSE IF value.k = "bool" THEN PyBool(value.b)
    ELSE PyBool(NormalText(value) \in {W.yes, W.true, W.one, W.present, W.available})

\* text.replace("_", "-").replace(" ", "-")
Hyphenated(text) == ReplaceChar(ReplaceChar(text, "_", "-"), " ", "-")

\* the branches of _normalize_categorical_value on the stripped,
\* lower-cased text and its hyphenated form
CategoricalOf(key, text, normalized) ==
    IF text = <<>> THEN PyNaN
    ELSE IF key \in FREQUENCY_KEYS THEN
        (IF StartsWith(text, W.often) THEN PyStr(W.often)
         ELSE IF StartsWith(text, W.sometimes) THEN PyStr(W.sometimes)
         ELSE IF StartsWith(text, W.rarely) THEN PyStr(W.rarely)
         ELSE IF StartsWith(text, W.never) THEN PyStr(W.never)
         ELSE PyNaN)
    ELSE IF key \in TYPE_KEYS THEN
        (IF normalized \in {W.nonorganic, W.non_dash_organic}
             THEN PyStr(W.non_dash_organic)
         ELSE IF normalized = W.organic THEN PyStr(W.organic)
         ELSE PyNaN)
    ELSE IF key = "shade_tree_present" THEN
        (IF text \in {W.yes, W.true, W.one} THEN PyStr(W.yes)
         ELSE IF text \in {W.no, W.false, W.zero} THEN PyStr(W.no)
         ELSE PyNaN)
    ELSE IF key = "flood_risk_level" THEN
        (IF normalized \in FLOOD_RISK_CANONICAL THEN PyStr(normalized) ELSE PyNaN)
    ELSE IF key = "bean_screen_size" THEN
        (IF normalized \in BEAN_SCREEN_CANONICAL THEN PyStr(normalized) ELSE PyNaN)
    ELSE PyStr(text)

\* backend/predict_api.py _normalize_categorical_value
_normalize_categorical_value(key, value) ==
    IF value.k = "none" THEN PyNaN
    ELSE CategoricalOf(key, NormalText(value), Hyphenated(NormalText(value)))

(***************************************************************************)
(* Identifier hashing.  sha1 is modelled by a fixed polynomial code of the *)
(* text: a deterministic function of the characters, never 0.              *)
(***************************************************************************)
CharCode(c) ==
    IF IndexIn(c, LowerCase) > 0 THEN IndexIn(c, LowerCase)
    ELSE IF IndexIn(c, UpperCase) > 0 THEN 26 + IndexIn(c, UpperCase)
    ELSE IF IndexIn(c, Digits) > 0 THEN 52 + IndexIn(c, Digits)
    ELSE 63

\* the code of a text after a text: the codes of the two, as pairs of the
\* power of 31 for the length (p) and the polynomial of the characters (s)
JoinCodes(left, right) ==
    [p |-> (left.p * right.p) % 997, s |-> (left.s * right.p + right.s) % 997]

\* the pair for the characters lo..hi of text, by halves
RECURSIVE SegmentCode(_, _, _)
SegmentCode(text, lo, hi) ==
    IF lo > hi THEN [p |-> 1, s |-> 0]
    ELSE IF lo = hi THEN [p |-> 31, s |-> CharCode(text[lo])]
    ELSE JoinCodes(SegmentCode(text, lo, (lo + hi) \div 2),
                   SegmentCode(text, ((lo + hi) \div 2) + 1, hi))

\* the polynomial code of the characters, in base 31 modulo 997, from 7
SeededCode(seed, code) == (seed * code.p + code.s) % 997
TextCode(text) == SeededCode(7, SegmentCode(text, 1, Len(text)))

\* a plausible slip: the text is hashed without being trimmed
HashUntrimmed(value) ==
    IF value.k = "none" THEN PyFloat(0)
    ELSE IF str(value) = <<>> THEN PyFloat(0)
    ELSE PyFloat(Flt(1 + TextCode(str(value))))

\* backend/modeling.py hash_identifier
hash_identifier(value) ==
    IF value.k = "none" THEN PyFloat(0)
    ELSE IF Strip(str(value)) = <<>> THEN PyFloat(0)
    ELSE PyFloat(Flt(1 + TextCode(Strip(str(value)))))

(***************************************************************************)
(* Request payloads.  The features of a request are a positional list      *)
(* (items) or a mapping (pairs of key and value, as JSON lists them).      *)
(***************************************************************************)
ListInput(items) == [kind |-> "list", items |-> items, pairs |-> <<>>]
DictInput(pairs) == [kind |-> "dict", items |-> <<>>, pairs |-> pairs]

\* dict.get(key): the value of the last pair with that key, else None
Get(pairs, key) ==
    LET at == {i \in 1..Len(pairs) : pairs[i][1] = key}
    IN  IF at = {} THEN PyNone
        ELSE pairs[CHOOSE i \in at : \A j \in at : j <= i][2]

\* an exception: its type and the parts of its message
Exc(type, what, expected, received) ==
    [type |-> type, what |-> what, expected |-> expected, received |-> received]

Raised(e) == [ok |-> FALSE, exc |-> e, val |-> <<>>]
Returned(x) == [ok |-> TRUE, exc |-> <<>>, val |-> x]

InvalidLength(v, features) ==
    Exc("ValueError", "Invalid feature length",
        Len(FEATURE_KEYS(v)), Len(features.items))

(***************************************************************************)
(* Feature vector assembler, backend variant.                              *)
(***************************************************************************)
\* a plausible slip: the length of a list is not checked, missing positions
\* read as None
FeatureObjectNoLengthCheck(features) ==
    IF features.kind = "list" THEN
        Returned([i \in 1..Len(BACKEND_FEATURE_KEYS) |->
                     <<BACKEND_FEATURE_KEYS[i],
                       IF i <= Len(features.items) THEN features.items[i] ELSE PyNone>>])
    ELSE Returned([i \in 1..Len(BACKEND_FEATURE_KEYS) |->
                     <<BACKEND_FEATURE_KEYS[i], Get(features.pairs, BACKEND_FEATURE_KEYS[i])>>])

\* backend _feature_object: the pairs <<key, raw value>> in FEATURE_KEYS
\* order, or ValueError
_feature_object(features) ==
    IF features.kind = "list" THEN
        (IF Len(features.items) # Len(BACKEND_FEATURE_KEYS)
            THEN Raised(InvalidLength("backend", features))
            ELSE Returned([i \in 1..Len(BACKEND_FEATURE_KEYS) |->
                              <<BACKEND_FEATURE_KEYS[i], features.items[i]>>]))
    ELSE IF features.kind = "dict" THEN
        Returned([i \in 1..Len(BACKEND_FEATURE_KEYS) |->
                     <<BACKEND_FEATURE_KEYS[i], Get(features.pairs, BACKEND_FEATURE_KEYS[i])>>])
    ELSE Raised(Exc("ValueError", "features must be either a list or an object", 0, 0))

ParsedOrNaN(parsed) == IF parsed.ok THEN parsed.v ELSE PyNaN

\* float(value) inside try/except (TypeError, ValueError): NaN on failure;
\* the OverflowError of float(10**309) is not caught
FloatOrNaN(value) ==
    CASE value.k = "bool" -> PyFloat(IF value.b THEN Flt(1) ELSE 0)
      [] value.k = "int" -> PyFloat(Flt(value.n))
      [] value.k = "float" -> PyFloat(value.n)
      [] value.k = "nan" -> PyNaN
      [] value.k = "str" -> ParsedOrNaN(ParseFloat(value.s))
      [] value.k = "huge" -> PyRaise("OverflowError")
      [] OTHER -> PyNaN

\* a plausible slip: a missing numeric value is stored as 0.0
DataFrameCellZeroFill(key, value) ==
    IF key \in DATAFRAME_CATEGORICAL_KEYS THEN _normalize_categorical_value(key, value)
    ELSE IF key \in IDENTIFIER_KEYS THEN hash_identifier(value)
    ELSE IF value.k = "none" \/ (value.k = "str" /\ value.s = <<>>) THEN PyFloat(0)
    ELSE FloatOrNaN(value)

\* one cell of the row built by backend _feature_dataframe
DataFrameCell(key, value) ==
    IF key \in DATAFRAME_CATEGORICAL_KEYS THEN _normalize_categorical_value(key, value)
    ELSE IF key \in IDENTIFIER_KEYS THEN hash_identifier(value)
    ELSE IF value.k = "none" \/ (value.k = "str" /\ value.s = <<>>) THEN PyNaN
    ELSE FloatOrNaN(value)

\* the exception of a coercion that raised
CoercionRaised(cell) == Exc(cell.s[1], "coercion raised", 0, 0)

\* the first cell whose coercion raised, in the order the cells are built,
\* or 0
RaisedIn(cells) ==
    IF \E i \in 1..Len(cells) : cells[i].k = "raise"
        THEN CHOOSE i \in 1..Len(cells) :
                cells[i].k = "raise" /\ \A j \in 1..(i - 1) : cells[j].k # "raise"
        ELSE 0

\* the input is returned, or the exception of the first coercion that
\* raised leaves the assembler
InputOrRaise(input, at) ==
    IF at > 0 THEN Raised(CoercionRaised(input.cells[at])) ELSE Returned(input)

BuiltOrRaise(input) == InputOrRaise(input, RaisedIn(input.cells))

\* backend _feature_dataframe: a one-row frame with the columns FEATURE_KEYS
_feature_dataframe(feature_obj) ==
    BuiltOrRaise(
        [path |-> "frame",
         cols |-> BACKEND_FEATURE_KEYS,
         cells |-> [i \in 1..Len(BACKEND_FEATURE_KEYS) |->
                       DataFrameCell(BACKEND_FEATURE_KEYS[i],
                                     Get(feature_obj, BACKEND_FEATURE_KEYS[i]))]])

\* backend _legacy_numeric_vector: a 1 x N array, no column names
_legacy_numeric_vector(feature_obj) ==
    BuiltOrRaise(
        [path |-> "vector",
         cols |-> <<>>,
         cells |-> [i \in 1..Len(BACKEND_FEATURE_KEYS) |->
                       _to_number("backend", Get(feature_obj, BACKEND_FEATURE_KEYS[i]))]])

(***************************************************************************)
(* Feature vector assembler, api variant.                                  *)
(***************************************************************************)
\* one value of the dictionary built by api _normalize_features
NormalizedValue(key, value) ==
    CASE key = "fertilizer_type" -> _map_fertilizer_type(value)
      [] key = "pesticide_type" -> _map_pesticide_type(value)
      [] key \in FREQUENCY_KEYS -> _map_frequency(value)
      [] key = "shade_tree_present" -> _map_boolean(value)
      [] OTHER -> _to_number("api", value)

\* a plausible slip: the frame is built from the request mapping itself
NormalizeFeaturesKeepExtras(features) ==
    LET pairs == IF features.kind = "list"
                    THEN [i \in 1..Len(features.items) |->
                             <<API_FEATURE_KEYS[i], features.items[i]>>]
                    ELSE features.pairs
    IN  IF features.kind = "list" /\ Len(features.items) # Len(API_FEATURE_KEYS)
            THEN Raised(InvalidLength("api", features))
        ELSE Returned([path |-> "frame",
                       cols |-> [i \in 1..Len(pairs) |-> pairs[i][1]],
                       cells |-> [i \in 1..Len(pairs) |->
                                     NormalizedValue(pairs[i][1], pairs[i][2])]])

\* api _normalize_features: a one-row frame, or ValueError
_normalize_features(features) ==
    LET pairs == IF features.kind = "list"
                    THEN [i \in 1..Len(API_FEATURE_KEYS) |->
                             <<API_FEATURE_KEYS[i], features.items[i]>>]
                    ELSE features.pairs
    IN  IF features.kind = "list" /\ Len(features.items) # Len(API_FEATURE_KEYS)
            THEN Raised(InvalidLength("api", features))
        ELSE IF features.kind \in {"list", "dict"}
            THEN BuiltOrRaise(
                    [path |-> "frame",
                     cols |-> API_NORMALIZED_ORDER,
                     cells |-> [i \in 1..Len(API_NORMALIZED_ORDER) |->
                                   NormalizedValue(API_NORMALIZED_ORDER[i],
                                                   Get(pairs, API_NORMALIZED_ORDER[i]))]])
        ELSE Raised(Exc("ValueError", "features must be either a list or a dictionary", 0, 0))

(***************************************************************************)
(* Trained model artifacts.  An artifact is an opaque, deterministic       *)
(* predict(): what it returns or raises depends only on the input it is    *)
(* given.  It is modelled by a table from the kind of input (a named       *)
(* frame or a bare numeric vector) and a digest of the input's cells to an *)
(* outcome: a float, or the type of the exception raised.                  *)
(***************************************************************************)
Ok(x) == [k |-> "ok", v |-> x]
Fails(type) == [k |-> type, v |-> 0]

CellCode(cell) ==
    CASE cell.k = "float" -> ((IF cell.n < 0 THEN 0 - cell.n ELSE cell.n) \div Scale) % 2
      [] cell.k = "nan" -> 1
      [] cell.k = "str" -> Len(cell.s) % 2
      [] cell.k = "bool" -> (IF cell.b THEN 1 ELSE 0)
      [] OTHER -> 0

\* the sum of the codes of the cells lo..hi, by halves
RECURSIVE RangeSum(_, _, _)
RangeSum(cells, lo, hi) ==
    IF lo > hi THEN 0
    ELSE IF lo = hi THEN CellCode(cells[lo])
    ELSE RangeSum(cells, lo, (lo + hi) \div 2) + RangeSum(cells, ((lo + hi) \div 2) + 1, hi)

CodeSum(cells, i) == RangeSum(cells, 1, i)

Digest(input) == CodeSum(input.cells, Len(input.cells)) % 2

\* model.predict(input)[0]
ModelPredict(model, input) == model[input.path][Digest(input) + 1]

\* an artifact that answers frames with f and vectors with w;
\* n_features_in_ is 0 when the artifact has no such attribute
Artifact(f, w) == [none |-> FALSE, n_features_in_ |-> 0, frame |-> f, vector |-> w]
\* the artifact, fitted on arrays of the given width
Fitted(artifact, width) == [artifact EXCEPT !.n_features_in_ = width]
OnBoth(o0, o1) == Artifact(<<o0, o1>>, <<o0, o1>>)
OnFrame(o0, o1, e) == Artifact(<<o0, o1>>, <<Fails(e), Fails(e)>>)
OnVector(o0, o1, e) == Artifact(<<Fails(e), Fails(e)>>, <<o0, o1>>)
Always(o) == OnBoth(o, o)
\* the value None bound to a model name
NoneModel ==
    [none |-> TRUE, n_features_in_ |-> 0,
     frame |-> <<Fails("AttributeError"), Fails("AttributeError")>>,
     vector |-> <<Fails("AttributeError"), Fails("AttributeError")>>]

ModelSet(y, f, p, c) == [yield |-> y, fine |-> f, premium |-> p, commercial |-> c]

\* the sets of four artifacts a model directory may hold
ArtifactSets == {
    \* pipelines fitted on named frames
    ModelSet(OnFrame(Ok(Flt(430) + 12345), Ok(Flt(-3)), "ValueError"),
             OnFrame(Ok(Flt(36)), Ok(Flt(1)), "ValueError"),
             OnFrame(Ok(Flt(34)), Ok(Flt(1)), "ValueError"),
             OnFrame(Ok(Flt(30)), Ok(Flt(1)), "ValueError")),
    \* regressors with negative and all-zero grade outputs
    ModelSet(Always(Ok(Flt(12))),
             Always(Ok(Flt(-2))),
             OnBoth(Ok(Flt(40)), Ok(0)),
             OnBoth(Ok(Flt(60)), Ok(Flt(-1)))),
    \* legacy numeric-only artifacts
    ModelSet(Fitted(OnVector(Ok(Flt(250)), Ok(0), "ValueError"), 39),
             Fitted(OnVector(Ok(Flt(1)), Ok(Flt(11)), "ValueError"), 39),
             Fitted(OnVector(Ok(Flt(1)), Ok(Flt(1)), "ValueError"), 39),
             Fitted(OnVector(Ok(Flt(4)), Ok(Flt(-2)), "ValueError"), 39)),
    \* regressors of the simple schema, fitted on 18 columns
    ModelSet(Fitted(Always(Ok(Flt(75))), 18),
             Fitted(Always(Ok(Flt(50))), 18),
             Fitted(Always(Ok(Flt(30))), 18),
             Fitted(Always(Ok(Flt(20))), 18)),
    \* a fine-grade model that rejects some inputs with ValueError
    ModelSet(Always(Ok(Flt(90))),
             OnBoth(Ok(Flt(20)), Fails("ValueError")),
             Always(Ok(Flt(20))),
             Always(Ok(Flt(11)))),
    \* a commercial-grade model that always raises RuntimeError
    ModelSet(Always(Ok(Flt(90))),
             Always(Ok(Flt(20))),
             Always(Ok(Flt(20))),
             Always(Fails("RuntimeError"))),
    \* a premium-grade model fitted on another width: ValueError on any input
    ModelSet(Fitted(Always(Ok(Flt(90))), 39),
             Fitted(Always(Ok(Flt(20))), 39),
             Fitted(Always(Fails("ValueError")), 18),
             Fitted(Always(Ok(Flt(60))), 39)),
    \* a premium-grade model that fails on frames only
    ModelSet(OnBoth(Ok(Flt(100)), Ok(Flt(200))),
             Artifact(<<Ok(Flt(60)), Ok(Flt(60))>>, <<Ok(Flt(4)), Ok(Flt(1))>>),
             OnVector(Ok(Flt(4)), Ok(Flt(1)), "TypeError"),
             OnBoth(Ok(Flt(11)), Ok(Flt(40)))),
    \* artifacts that fail on frames, one of which also fails on some vectors
    ModelSet(OnVector(Ok(Flt(7)), Ok(Flt(7)), "ValueError"),
             OnVector(Ok(Flt(11)), Fails("RuntimeError"), "ValueError"),
             OnVector(Ok(Flt(40)), Ok(Flt(40)), "ValueError"),
             OnVector(Ok(Flt(4)), Ok(Flt(4)), "ValueError")) }

\* the module-level names of api/index.py when a load failed: all None
NoModels == ModelSet(NoneModel, NoneModel, NoneModel, NoneModel)

ModelRaised(type) == Exc(type, "model predict raised", 0, 0)

(***************************************************************************)
(* What a handler did for one request is kept in a log of events: each     *)
(* input assembled for the models, and each predict call with its outcome. *)
(***************************************************************************)
AssembledEvent(input) ==
    [ev |-> "assembled", model |-> "", path |-> input.path,
     cols |-> input.cols, cells |-> input.cells, out |-> Ok(0)]
CallEvent(model, path, out) ==
    [ev |-> "predict", model |-> model, path |-> path,
     cols |-> <<>>, cells |-> <<>>, out |-> out]

\* what _predict_internal returned (val) or raised (exc), and its events
Done(val, events) == [ok |-> TRUE, exc |-> <<>>, val |-> val, log |-> events]
Failed(exc, events) == [ok |-> FALSE, exc |-> exc, val |-> <<>>, log |-> events]

MODEL_NAMES == <<"yield", "fine", "premium", "commercial">>

\* the calls made: all four, or those up to the first that raised
CallsMade(outs) ==
    IF \A i \in 1..4 : outs[i].k = "ok" THEN 4
    ELSE CHOOSE i \in 1..4 : outs[i].k # "ok" /\ \A j \in 1..(i - 1) : outs[j].k = "ok"

\* the four floats, or the exception of the first call, in call order,
\* that raised
FourOutcomes(outs, path, made) ==
    IF outs[made].k = "ok"
        THEN Done([i \in 1..4 |-> outs[i].v],
                  [i \in 1..made |-> CallEvent(MODEL_NAMES[i], path, outs[i])])
        ELSE Failed(ModelRaised(outs[made].k),
                    [i \in 1..made |-> CallEvent(MODEL_NAMES[i], path, outs[i])])

FourCalls(outs, path) == FourOutcomes(outs, path, CallsMade(outs))

\* the four predict calls of _predict_internal on one input, in the order
\* yield, fine, premium, commercial; a model name bound to None raises
\* AttributeError before anything is called
FourPredictions(ms, input) ==
    IF ms.yield.none
        THEN Failed(Exc("AttributeError",
                        "'NoneType' object has no attribute 'predict'", 0, 0), <<>>)
        ELSE FourCalls(<<ModelPredict(ms.yield, input), ModelPredict(ms.fine, input),
                         ModelPredict(ms.premium, input), ModelPredict(ms.commercial, input)>>,
                       input.path)

(***************************************************************************)
(* Inference facade.                                                       *)
(***************************************************************************)
\* a plausible slip: the two labels are left out of the response
BackendBodyUnlabelled(yield_pred, grades, labels) ==
    [yield_kg |-> Round3(MaxZero(yield_pred)),
     fine_grade_pct |-> Round3(grades[1]),
     premium_grade_pct |-> Round3(grades[2]),
     commercial_grade_pct |-> Round3(grades[3])]

\* the response dictionary of backend _predict_internal, from the raw
\* yield, the normalized grades and their labels
BackendBody(yield_pred, grades, labels) ==
    [yield_kg |-> Round3(MaxZero(yield_pred)),
     fine_grade_pct |-> Round3(grades[1]),
     premium_grade_pct |-> Round3(grades[2]),
     commercial_grade_pct |-> Round3(grades[3]),
     dominant_grade |-> labels.dominant_grade,
     grade_label |-> labels.grade_label]

LabelledBody(yield_pred, grades) ==
    BackendBody(yield_pred, grades, _derive_grade_labels(grades[1], grades[2], grades[3]))

BackendResult(preds) ==
    LabelledBody(preds[1], _normalize_grade_triplet(preds[2], preds[3], preds[4]))

\* the response dictionary of api _predict_internal
ApiBody(yield_pred, grades) ==
    [yield_kg |-> Round3(MaxZero(yield_pred)),
     fine_grade_pct |-> Round3(grades[1]),
     premium_grade_pct |-> Round3(grades[2]),
     commercial_grade_pct |-> Round3(grades[3])]

ApiResult(preds) ==
    ApiBody(preds[1], _normalize_grade_triplet(preds[2], preds[3], preds[4]))

\* the end of backend _predict_internal: preds are the four predictions, or
\* the exception that leaves the function; before are the earlier events
BackendFinish(preds, before) ==
    IF preds.ok THEN Done(BackendResult(preds.val), before \o preds.log)
    ELSE Failed(preds.exc, before \o preds.log)

\* the four values of preds, those of the frame calls that returned before
\* one raised (the events before[2], before[3], ...) put back in place
KeepFrameValues(preds, before) ==
    IF ~preds.ok THEN preds
    ELSE [preds EXCEPT !.val = [i \in 1..4 |->
            IF i + 1 <= Len(before) /\ before[i + 1].out.k = "ok"
                THEN before[i + 1].out.v ELSE preds.val[i]]]

\* a plausible slip: each model is tried on the frame and then on the
\* vector by itself, so the values of the frame calls that returned are kept
BackendLegacyPerModel(ms, vector, before) ==
    IF ~vector.ok THEN Failed(vector.exc, before)
    ELSE BackendFinish(KeepFrameValues(FourPredictions(ms, vector.val), before),
                       Append(before, AssembledEvent(vector.val)))

\* the except branch of backend _predict_internal: the same four calls on
\* the legacy numeric vector
BackendLegacy(ms, vector, before) ==
    IF ~vector.ok THEN Failed(vector.exc, before)
    ELSE BackendFinish(FourPredictions(ms, vector.val),
                       Append(before, AssembledEvent(vector.val)))

\* the try/except of backend _predict_internal: first is what the four calls
\* on the frame gave
BackendFallback(ms, feature_obj, frame, first) ==
    IF first.ok THEN BackendFinish(first, <<AssembledEvent(frame)>>)
    ELSE BackendLegacy(ms, _legacy_numeric_vector(feature_obj),
                       <<AssembledEvent(frame)>> \o first.log)

BackendFramed(ms, feature_obj, frame) ==
    IF ~frame.ok THEN Failed(frame.exc, <<>>)
    ELSE BackendFallback(ms, feature_obj, frame.val, FourPredictions(ms, frame.val))

BackendAssembled(ms, fo) ==
    IF ~fo.ok THEN Failed(fo.exc, <<>>)
    ELSE BackendFramed(ms, fo.val, _feature_dataframe(fo.val))

\* backend _predict_internal
BackendPredictInternal(ms, features) == BackendAssembled(ms, _feature_object(features))

ApiFinish(preds, before) ==
    IF preds.ok THEN Done(ApiResult(preds.val), before \o preds.log)
    ELSE Failed(preds.exc, before \o preds.log)

ApiAssembled(ms, df) ==
    IF ~df.ok THEN Failed(df.exc, <<>>)
    ELSE ApiFinish(FourPredictions(ms, df.val), <<AssembledEvent(df.val)>>)

\* api _predict_internal
ApiPredictInternal(ms, features) == ApiAssembled(ms, _normalize_features(features))

_predict_internal(v, ms, features) ==
    IF v = "backend" THEN BackendPredictInternal(ms, features)
    ELSE ApiPredictInternal(ms, features)

\* str(exc): the message, without the type
StrExc(e) == [what |-> e.what, expected |-> e.expected, received |-> e.received]

HttpOk(body) == [status |-> 200, body |-> body, prefix |-> "", detail |-> <<>>]
HttpError(status, prefix, e) ==
    [status |-> status, body |-> <<>>, prefix |-> prefix, detail |-> StrExc(e)]

\* the try/except of predict: r is what _predict_internal returned or raised
Answer(r) ==
    IF r.ok THEN HttpOk(r.val)
    ELSE IF r.exc.type = "ValueError" THEN HttpError(422, "", r.exc)
    ELSE HttpError(500, "Prediction failed: ", r.exc)

\* what a handler answered, and the events of its work
Handled(response, events) == [resp |-> response, log |-> events]

PredictHandled(r) == Handled(Answer(r), r.log)

\* POST /predict and POST /api/predict
predict(v, ms, features) == PredictHandled(_predict_internal(v, ms, features))

\* the entry of predict_batch for one sample: r is what _predict_internal
\* returned or raised for its features
BatchEntry(sample, r) ==
    IF r.ok THEN [id |-> sample.id, prediction |-> r.val]
    ELSE [id |-> sample.id, error |-> StrExc(r.exc)]

\* a plausible slip: the entry is put at the head of the list
BatchStepPrepend(acc, sample, r) ==
    Handled(<<BatchEntry(sample, r)>> \o acc.resp, Append(acc.log, r.log))

\* a plausible slip: once a sample has failed, the later samples are given
\* its error
BatchStepStickyError(acc, sample, r) ==
    IF acc.resp # <<>> /\ "error" \in DOMAIN acc.resp[Len(acc.resp)]
        THEN Handled(Append(acc.resp, [id |-> sample.id,
                                       error |-> acc.resp[Len(acc.resp)].error]),
                     Append(acc.log, r.log))
        ELSE Handled(Append(acc.resp, BatchEntry(sample, r)), Append(acc.log, r.log))

\* one turn of the loop of predict_batch: the entry is appended
BatchStep(acc, sample, r) ==
    Handled(Append(acc.resp, BatchEntry(sample, r)), Append(acc.log, r.log))

\* the loop of predict_batch from sample i on, acc holding the predictions
\* built so far
RECURSIVE BatchLoop(_, _, _, _, _)
BatchLoop(v, ms, samples, i, acc) ==
    IF i > Len(samples) THEN acc
    ELSE BatchLoop(v, ms, samples, i + 1,
            BatchStep(acc, samples[i], _predict_internal(v, ms, samples[i].features)))

BatchHandled(acc) == Handled(HttpOk([predictions |-> acc.resp]), acc.log)

\* POST /predict/batch and POST /api/predict/batch
predict_batch(v, ms, samples) ==
    IF Len(samples) = 0 THEN Handled(HttpOk([predictions |-> <<>>]), <<>>)
    ELSE BatchHandled(BatchLoop(v, ms, samples, 1, Handled(<<>>, <<>>)))

(***************************************************************************)
(* The requests enumerated.                                                *)
(***************************************************************************)
Fill(n, value) == [i \in 1..n |-> value]
KeyedFill(keys, value) == [i \in 1..Len(keys) |-> <<keys[i], value>>]

ExtraPair == <<"unknown_key", PyInt(1)>>

\* a mapping with two canonical keys and one unknown key
PartialDict ==
    DictInput(<<<<"number_of_plants", PyInt(420)>>, <<"soil_ph", PyInt(7)>>, ExtraPair>>)

\* a mapping with three categorical keys given by synonyms, the rest omitted
ScenarioDict ==
    DictInput(<<<<"fertilizer_type", PyStr(<<"N", "a", "t", "u", "r", "a", "l">>)>>,
                <<"pesticide_frequency",
                  PyStr(<<"O", "c", "c", "a", "s", "i", "o", "n", "a", "l", "l", "y">>)>>,
                <<"shade_tree_present", PyStr(<<"P", "r", "e", "s", "e", "n", "t">>)>>>>)

\* PartialDict with the value of soil_ph given under "ph", the third alias
\* of soil_ph in FEATURE_ALIASES
AliasedDict ==
    DictInput(<<<<"number_of_plants", PyInt(420)>>, <<"ph", PyInt(7)>>, ExtraPair>>)

\* the features payloads sent in the samples of a batch
BatchInputs(v) ==
    { ListInput(Fill(Len(FEATURE_KEYS(v)), PyInt(5))),
      ListInput(Fill(Len(FEATURE_KEYS(v)) - 1, PyInt(5))),
      PartialDict,
      DictInput(<<>>) }

\* the features payloads sent to variant v in single requests
FeatureInputs(v) ==
    BatchInputs(v) \cup
    { ListInput(Fill(Len(FEATURE_KEYS(v)), PyStr(<<" ", "O", "f", "t", "e", "n">>))),
      ListInput(Fill(Len(FEATURE_KEYS(v)) + 1, PyFloat(Flt(6) + (Scale \div 5)))),
      ListInput(<<>>),
      DictInput(KeyedFill(FEATURE_KEYS(v), PyFloat(Flt(6) + (Scale \div 5)))),
      DictInput(Append(KeyedFill(FEATURE_KEYS(v), PyStr(<<"N", "a", "t", "u", "r", "a", "l">>)),
                       ExtraPair)),
      DictInput(<<ExtraPair>>),
      ScenarioDict,
      AliasedDict,
      DictInput(<<<<"flood_risk_level", PyStr(<<"7", ".", "5">>)>>,
                  <<"pesticide_type", PyStr(<<"b", "i", "o">>)>>>>),
      DictInput(KeyedFill(FEATURE_KEYS(v), PyStr(<<"n", "/", "a">>))),
      DictInput(<<<<"soil_ph", PyHuge>>>>) }

\* the ids given to the samples of a batch: none, an integer, a string
SampleIds == <<PyNone, PyInt(7), PyStr(<<"s", "-", "1">>)>>

\* the header of a dataset that names every feature and every target by
\* its canonical key
CanonicalHeader ==
    [i \in 1..Len(BACKEND_FEATURE_KEYS) |-> FEATURE_ALIASES[BACKEND_FEATURE_KEYS[i]][1]]
        \o [i \in 1..Len(TARGET_KEYS) |-> TARGET_ALIASES[TARGET_KEYS[i]][1]]

Without(columns, names) == SelectSeq(columns, LAMBDA c : c \notin names)
Reversed(columns) == [i \in 1..Len(columns) |-> columns[Len(columns) + 1 - i]]

\* the headers made from the canonical one by a change of the columns of
\* one key with the alias list a: the key's columns removed; the key held
\* under its last alias; under its last and second aliases, in that order;
\* under its canonical name and its last alias
HeadersFor(a) ==
    {Without(CanonicalHeader, {a[1]}),
     Append(Without(CanonicalHeader, {a[1]}), a[Len(a)]),
     <<a[Len(a)], a[IF Len(a) > 1 THEN 2 ELSE 1]>> \o Without(CanonicalHeader, {a[1]}),
     Append(CanonicalHeader, a[Len(a)])}

\* the datasets given to training runs
TrainingDatasets ==
    {[columns |-> c, rows |-> "enough"] :
        c \in UNION {HeadersFor(FEATURE_ALIASES[key]) : key \in DOMAIN FEATURE_ALIASES}
              \cup UNION {HeadersFor(TARGET_ALIASES[key]) : key \in DOMAIN TARGET_ALIASES}
              \cup {CanonicalHeader, Reversed(CanonicalHeader),
                    \* a feature and a target missing
                    Without(CanonicalHeader, {FEATURE_ALIASES.soil_ph[1],
                                              TARGET_ALIASES.yield_kg[1]}),
                    \* the grade shares held once, under the names that
                    \* are aliases of a feature and of a target
                    <<FEATURE_ALIASES.previous_fine_pct[2],
                      FEATURE_ALIASES.previous_premium_pct[2],
                      FEATURE_ALIASES.previous_commercial_pct[2]>>
                        \o Without(CanonicalHeader,
                                   {FEATURE_ALIASES.previous_fine_pct[1],
                                    FEATURE_ALIASES.previous_premium_pct[1],
                                    FEATURE_ALIASES.previous_commercial_pct[1],
                                    TARGET_ALIASES.fine_grade_pct[1],
                                    TARGET_ALIASES.premium_grade_pct[1],
                                    TARGET_ALIASES.commercial_grade_pct[1]}),
                    \* names as a spreadsheet exports them
                    <<<<" ", "F", "a", "r", "m", " ", "I", "D", " ">>,
                      <<"S", "o", "i", "l", "-", "-", "p", "H">>,
                      <<"_", "R", "a", "i", "n", "f", "a", "l", "l", " ", "(", "m", "m", ")">>>>
                        \o Without(CanonicalHeader,
                                   {FEATURE_ALIASES.farm_id[1], FEATURE_ALIASES.soil_ph[1],
                                    FEATURE_ALIASES.avg_rainfall_mm[1]})}}
    \cup {[columns |-> CanonicalHeader, rows |-> "none"],
          [columns |-> CanonicalHeader, rows |-> "few"],
          [columns |-> Without(CanonicalHeader, {TARGET_ALIASES.yield_kg[1]}), rows |-> "none"],
          [columns |-> Without(CanonicalHeader, {FEATURE_ALIASES.soil_ph[1]}), rows |-> "few"]}


\* the scalar values given to the coercion functions
ScalarInputs ==
    { PyNone, PyBool(TRUE), PyBool(FALSE), PyNaN, PyHuge,
      PyInt(0), PyInt(1), PyInt(7), PyInt(-3),
      PyFloat(Flt(6) + (Scale \div 5)), PyFloat(0 - (Scale \div 2)),
      PyStr(<<>>), PyStr(<<" ", "\t", " ">>),
      PyStr(<<" ", "O", "f", "t", "e", "n">>), PyStr(<<"r", "a", "r", "e", "l", "y", " ">>),
      PyStr(<<"S", "o", "m", "e", "t", "i", "m", "e", "s">>), PyStr(W.never),
      PyStr(W.organic), PyStr(<<"N", "o", "n", "-", "O", "r", "g", "a", "n", "i", "c">>),
      PyStr(W.non_under_organic), PyStr(W.nonorganic),
      PyStr(<<"n", "o", "n", " ", "o", "r", "g", "a", "n", "i", "c">>),
      PyStr(W.synthetic), PyStr(W.none), PyStr(<<"N", "o", "n", "e">>),
      PyStr(<<"Y", "E", "S">>), PyStr(W.true), PyStr(W.one), PyStr(W.no),
      PyStr(W.false), PyStr(W.zero), PyStr(W.present), PyStr(W.natural),
      PyStr(W.occasionally), PyStr(<<"n", "/", "a">>), PyStr(<<"n", "a", "n">>),
      PyStr(<<" ", "7", " ">>), PyStr(<<"-", "2", ".", "5">>), PyStr(<<"+", ".", "5">>),
      PyStr(<<"1", ".", "2", ".", "3">>), PyStr(<<"h", "i", "g", "h">>),
      PyStr(<<"E", "x", "t", "r", "a", "_", "L", "a", "r", "g", "e">>) }

\* the raw grade outputs given to the post-processor
RawGrades == {Flt(-2), 0, Flt(1), Flt(4), Flt(11), Flt(40), Flt(60)}

(***************************************************************************)
(* The service: the state after the module is imported, and one action per *)
(* request handler.  A worker is idle or holds, in op, req and resp, the   *)
(* request it has handled and the response, until the response is sent.    *)
(***************************************************************************)
\* a training process that is not running; run counts the runs so far
NoTraining(run) ==
    [pc |-> "idle", run |-> run, dataset |-> <<>>, before |-> <<>>, prepared |-> <<>>,
     error |-> "", r2 |-> <<>>, i |-> 0]

\* the threads of the pool that runs the handlers
Threads == {1, 2}

\* the locals of a thread that runs no handler
IdleThread ==
    [pc |-> "idle", kind |-> "", samples |-> <<>>, i |-> 0, feature_obj |-> <<>>,
     df |-> <<>>, result |-> <<>>, predictions |-> <<>>, resp |-> <<>>]

\* the end of the import of the module: the backend raises when a load
\* failed, and RuntimeError when the yield model's n_features_in_ is set
\* and is not len(FEATURE_KEYS); the api catches a failed load and checks
\* no width
Startup(v, ms, loaded) ==
    IF v = "api" THEN "idle"
    ELSE IF ~loaded THEN "aborted"
    ELSE IF ms.yield.n_features_in_ # 0
            /\ ms.yield.n_features_in_ # Len(BACKEND_FEATURE_KEYS) THEN "aborted"
    ELSE "idle"

Init ==
    /\ variant \in {"backend", "api"}
    /\ \/ models_loaded = TRUE /\ models \in ArtifactSets
       \/ models_loaded = FALSE /\ models = NoModels
    /\ op = Startup(variant, models, models_loaded)
    /\ req = <<>>
    /\ resp = <<>>
    /\ log = <<>>
    /\ threads = [t \in Threads |-> IdleThread]
    /\ model_dir = [artifacts |-> [key \in Range(TARGET_KEYS) |-> 0], metadata |-> 0,
                    failed_training |-> {}]
    /\ train = NoTraining(0)

Predict ==
    \E features \in FeatureInputs(variant) :
        /\ op = "idle"
        /\ op' = "predict"
        /\ req' = [features |-> features]
        /\ \E h \in {predict(variant, models, features)} :
                resp' = h.resp /\ log' = h.log
        /\ UNCHANGED <<variant, models_loaded, models, threads, model_dir, train>>

PredictBatch ==
    \E n \in 0..MaxBatch :
        \E fs \in [1..n -> BatchInputs(variant)], o \in 0..2 :
            LET samples == [i \in 1..n |->
                               [id |-> SampleIds[((o + i) % 3) + 1], features |-> fs[i]]]
            IN  /\ op = "idle"
                /\ op' = "predict_batch"
                /\ req' = [samples |-> samples]
                /\ \E h \in {predict_batch(variant, models, samples)} :
                        resp' = h.resp /\ log' = h.log
                /\ UNCHANGED <<variant, models_loaded, models, threads, model_dir, train>>

\* the post-processor applied to a triplet, and again to its own result
Twice(once) ==
    [once |-> once, twice |-> _normalize_grade_triplet(once[1], once[2], once[3])]

Normalize ==
    \E fine \in RawGrades, premium \in RawGrades, commercial \in RawGrades :
        /\ op = "idle"
        /\ op' = "normalize"
        /\ req' = <<fine, premium, commercial>>
        /\ resp' = Twice(_normalize_grade_triplet(fine, premium, commercial))
        /\ log' = <<>>
        /\ UNCHANGED <<variant, models_loaded, models, threads, model_dir, train>>

\* grades around the thresholds 55, 70 (as 35 + 35) and 45 of the labels
LabelGrades ==
    {Flt(-2), 0, Flt(20), Flt(27), Flt(35) - 1, Flt(35), Flt(45) - 1, Flt(45),
     Flt(55) - 1, Flt(55), Flt(60)}

\* _derive_grade_labels applied to one triplet; the function is the
\* backend's
Label ==
    \E fine \in LabelGrades, premium \in LabelGrades, commercial \in LabelGrades :
        /\ op = "idle"
        /\ variant = "backend"
        /\ op' = "label"
        /\ req' = <<fine, premium, commercial>>
        /\ resp' = _derive_grade_labels(fine, premium, commercial)
        /\ log' = <<>>
        /\ UNCHANGED <<variant, models_loaded, models, threads, model_dir, train>>

\* every coercion function of the two variants applied to one value
Coerced(value) ==
    [number |-> [v \in {"backend", "api"} |-> _to_number(v, value)],
     fertilizer |-> _map_fertilizer_type(value),
     pesticide |-> _map_pesticide_type(value),
     frequency |-> _map_frequency(value),
     boolean |-> _map_boolean(value),
     categorical |-> [key \in DATAFRAME_CATEGORICAL_KEYS |->
                        _normalize_categorical_value(key, value)],
     numeric |-> DataFrameCell("soil_ph", value),
     hashed |-> hash_identifier(value)]

Coerce ==
    \E value \in ScalarInputs :
        /\ op = "idle"
        /\ op' = "coerce"
        /\ req' = [value |-> value]
        /\ resp' = Coerced(value)
        /\ log' = <<>>
        /\ UNCHANGED <<variant, models_loaded, models, threads, model_dir, train>>

\* a plausible slip: the backend's health reports the count of the simple
\* schema
healthSimpleCount(v, loaded, dir) ==
    [ok |-> IF v = "backend" THEN TRUE ELSE loaded,
     expected_features |-> Len(API_FEATURE_KEYS),
     trained_at_utc |-> IF v = "backend" THEN dir.metadata ELSE -1]

\* GET /health of the backend and GET /api/health of the api: the expected
\* feature count and, for the backend, trained_at_utc of model_metadata.json
health(v, loaded, dir) ==
    IF v = "backend"
        THEN [ok |-> TRUE, expected_features |-> Len(BACKEND_FEATURE_KEYS),
              trained_at_utc |-> dir.metadata]
        ELSE [ok |-> loaded, expected_features |-> Len(API_FEATURE_KEYS),
              trained_at_utc |-> -1]

Health ==
    /\ op = "idle"
    /\ op' = "health"
    /\ req' = <<>>
    /\ resp' = health(variant, models_loaded, model_dir)
    /\ log' = <<>>
    /\ UNCHANGED <<variant, models_loaded, models, threads, model_dir, train>>

\* the response is sent and the request's locals are dropped; a process
\* whose import raised serves nothing
\* the raw grade outputs given to the post-processing of a response:
\* values at and within 0.0005 of the thresholds 55 and 45 and of a tie
BoundaryGrades ==
    {0, Flt(15), Flt(15) + 40, Flt(30), Flt(45) - 40, Flt(45), Flt(55) - 40, Flt(55),
     Flt(33) + 33330, Flt(33) + 33340}

\* the end of backend _predict_internal on four raw predictions: the
\* triplet is normalized, labelled, and rounded into the response
PostProcess ==
    \E fine \in BoundaryGrades, premium \in BoundaryGrades, commercial \in BoundaryGrades :
        /\ op = "idle"
        /\ variant = "backend"
        /\ op' = "postprocess"
        /\ req' = <<Flt(12), fine, premium, commercial>>
        /\ resp' = BackendResult(<<Flt(12), fine, premium, commercial>>)
        /\ log' = <<>>
        /\ UNCHANGED <<variant, models_loaded, models, threads, model_dir, train>>

Respond ==
    /\ op \notin {"idle", "aborted"}
    /\ op' = "idle"
    /\ req' = <<>>
    /\ resp' = <<>>
    /\ log' = <<>>
    /\ UNCHANGED <<variant, models_loaded, models, threads, model_dir, train>>

Next ==
    \/ Predict \/ PredictBatch \/ Normalize \/ Label \/ PostProcess \/ Coerce
    \/ Health \/ Respond

Spec == Init /\ [][Next]_vars

(***************************************************************************)
(* Concurrent requests.  The handlers are plain functions, which the       *)
(* framework runs on the threads of a pool: a thread may be preempted      *)
(* between any two statements.  A handler is cut after the assembly of the *)
(* model input, after the model calls of one _predict_internal, and after  *)
(* the result is put in the response.  The loaded models are read by all   *)
(* threads; everything else a handler uses is a local of its thread.       *)
(***************************************************************************)
\* the requests sent while another request is in flight
ConcurrentRequests(v) ==
    {[kind |-> "predict", samples |-> <<[id |-> PyNone, features |-> f]>>] :
        f \in {ListInput(Fill(Len(FEATURE_KEYS(v)), PyInt(5))),
               ListInput(Fill(Len(FEATURE_KEYS(v)) - 1, PyInt(5))),
               PartialDict}}
    \cup {[kind |-> "predict_batch", samples |-> <<>>],
          [kind |-> "predict_batch",
           samples |-> <<[id |-> SampleIds[2], features |-> PartialDict],
                         [id |-> SampleIds[3],
                          features |-> ListInput(Fill(Len(FEATURE_KEYS(v)), PyInt(5)))]>>],
          [kind |-> "predict_batch",
           samples |-> <<[id |-> SampleIds[1],
                          features |-> ListInput(Fill(Len(FEATURE_KEYS(v)) + 1, PyInt(5)))],
                         [id |-> SampleIds[2], features |-> DictInput(<<>>)]>>]}

\* a thread takes a request: the payload is its own; predict_batch with no
\* samples returns at once
Receive(t) ==
    \E request \in ConcurrentRequests(variant) :
        /\ op = "idle"
        /\ threads[t].pc = "idle"
        /\ threads' = [threads EXCEPT ![t] =
                IF request.samples = <<>>
                    THEN [IdleThread EXCEPT !.pc = "done", !.kind = request.kind,
                                            !.resp = HttpOk([predictions |-> <<>>])]
                    ELSE [IdleThread EXCEPT !.pc = "assemble", !.kind = request.kind,
                                            !.samples = request.samples, !.i = 1,
                                            !.predictions = Handled(<<>>, <<>>)]]
        /\ UNCHANGED <<variant, models_loaded, models, op, req, resp, log, model_dir, train>>

\* the frame built from a feature object, or the exception that building
\* the feature object raised
FrameOf(fo) == IF fo.ok THEN _feature_dataframe(fo.val) ELSE fo

\* the first statements of _predict_internal: the model input is built from
\* the features of the thread's current sample, into locals of the thread
Assemble(t) ==
    /\ threads[t].pc = "assemble"
    /\ \E fo \in {IF variant = "backend"
                    THEN _feature_object(threads[t].samples[threads[t].i].features)
                    ELSE Returned(<<>>)} :
        threads' = [threads EXCEPT
            ![t].pc = "call",
            ![t].feature_obj = fo,
            ![t].df = IF variant = "backend" THEN FrameOf(fo)
                      ELSE _normalize_features(threads[t].samples[threads[t].i].features)]
    /\ UNCHANGED <<variant, models_loaded, models, op, req, resp, log, model_dir, train>>

\* a plausible slip: the frame is kept in a module-level name, which a
\* thread that assembled its own meanwhile has overwritten
FrameOfAnyThread(ts, t) ==
    IF \E u \in Threads \ {t} : ts[u].pc = "call"
        THEN ts[CHOOSE u \in Threads \ {t} : ts[u].pc = "call"].df
        ELSE ts[t].df

\* the name df of _predict_internal: a local of the thread's call
FrameOfThread(ts, t) == ts[t].df

\* the rest of _predict_internal: the model calls on the frame and, in the
\* backend, on the legacy vector; the loaded models are read
CallModels(t) ==
    /\ threads[t].pc = "call"
    /\ \E df \in {FrameOfThread(threads, t)} :
        threads' = [threads EXCEPT
            ![t].pc = "collect",
            ![t].result = IF variant = "backend"
                            THEN BackendFramed(models, threads[t].feature_obj.val, df)
                            ELSE ApiAssembled(models, df)]
    /\ UNCHANGED <<variant, models_loaded, models, op, req, resp, log, model_dir, train>>

\* the handler takes what _predict_internal returned or raised: predict
\* answers; predict_batch appends the entry and goes on to the next sample
\* or answers
Collect(t) ==
    /\ threads[t].pc = "collect"
    /\ \E th \in {threads[t]} :
        threads' = [threads EXCEPT ![t] =
            IF th.kind = "predict"
                THEN [th EXCEPT !.pc = "done", !.resp = Answer(th.result)]
            ELSE IF th.i < Len(th.samples)
                THEN [th EXCEPT !.pc = "assemble", !.i = th.i + 1,
                                !.predictions =
                                    BatchStep(th.predictions, th.samples[th.i], th.result)]
            ELSE [th EXCEPT !.pc = "done",
                            !.predictions =
                                BatchStep(th.predictions, th.samples[th.i], th.result),
                            !.resp = BatchHandled(BatchStep(th.predictions,
                                                            th.samples[th.i],
                                                            th.result)).resp]]
    /\ UNCHANGED <<variant, models_loaded, models, op, req, resp, log, model_dir, train>>

\* the response is sent and the thread's locals are dropped
Send(t) ==
    /\ threads[t].pc = "done"
    /\ threads' = [threads EXCEPT ![t] = IdleThread]
    /\ UNCHANGED <<variant, models_loaded, models, op, req, resp, log, model_dir, train>>

ConcNext ==
    \E t \in Threads : Receive(t) \/ Assemble(t) \/ CallModels(t) \/ Collect(t) \/ Send(t)

ConcSpec == Init /\ [][ConcNext]_vars

(***************************************************************************)
(* Training (backend/train_models.py).  A run reads a dataset, prepares    *)
(* it, fits one estimator per target, writes the report and, depending on  *)
(* the quality gate, the artifacts.  The dataset is its header and whether *)
(* it has no, too few or enough rows; the fit of a target is its outcome:  *)
(* it raises, or it gives the holdout R2 of the estimator, in units of     *)
(* 10^-7.  A file of the model directory is known by the run that wrote    *)
(* it; the files found at the start were written by run 0.                 *)
(***************************************************************************)
\* the column names normalized, in the order of the header
NormalizedColumns(columns) ==
    [i \in 1..Len(columns) |-> normalize_column_name(columns[i])]

\* [key for key in keys if key not in cols]
MissingKeys(keys, cols) == SelectSeq(keys, LAMBDA key : key \notin DOMAIN cols)

\* what _load_and_prepare_dataset raised (what, keys) or that it returned
PrepareOutcome(what, keys, feature_cols, target_cols) ==
    [what |-> what, keys |-> keys, feature_cols |-> feature_cols,
     target_cols |-> target_cols]

\* a plausible slip: the missing targets are reported before the features
PreparedTargetsFirst(rows, feature_cols, target_cols) ==
    IF rows = "none" THEN PrepareOutcome("Dataset is empty.", <<>>, <<>>, <<>>)
    ELSE IF MissingKeys(TARGET_KEYS, target_cols) # <<>>
        THEN PrepareOutcome("Dataset is missing required target columns: ",
                            MissingKeys(TARGET_KEYS, target_cols), feature_cols, target_cols)
    ELSE IF MissingKeys(BACKEND_FEATURE_KEYS, feature_cols) # <<>>
        THEN PrepareOutcome("Dataset is missing required feature columns: ",
                            MissingKeys(BACKEND_FEATURE_KEYS, feature_cols),
                            feature_cols, target_cols)
    ELSE IF rows = "few"
        THEN PrepareOutcome("Not enough rows after cleaning", <<>>, feature_cols, target_cols)
    ELSE PrepareOutcome("", <<>>, feature_cols, target_cols)

\* the checks of _load_and_prepare_dataset, in their order
Prepared(rows, feature_cols, target_cols) ==
    IF rows = "none" THEN PrepareOutcome("Dataset is empty.", <<>>, <<>>, <<>>)
    ELSE IF MissingKeys(BACKEND_FEATURE_KEYS, feature_cols) # <<>>
        THEN PrepareOutcome("Dataset is missing required feature columns: ",
                            MissingKeys(BACKEND_FEATURE_KEYS, feature_cols),
                            feature_cols, target_cols)
    ELSE IF MissingKeys(TARGET_KEYS, target_cols) # <<>>
        THEN PrepareOutcome("Dataset is missing required target columns: ",
                            MissingKeys(TARGET_KEYS, target_cols), feature_cols, target_cols)
    ELSE IF rows = "few"
        THEN PrepareOutcome("Not enough rows after cleaning", <<>>, feature_cols, target_cols)
    ELSE PrepareOutcome("", <<>>, feature_cols, target_cols)

_load_and_prepare_dataset(dataset) ==
    Prepared(dataset.rows,
             resolve_aliases(NormalizedColumns(dataset.columns), FEATURE_ALIASES),
             resolve_aliases(NormalizedColumns(dataset.columns), TARGET_ALIASES))

\* round(r2, 6), r2 in units of 10^-7
Round6(r2) ==
    IF r2 < 0 THEN 0 - 10 * RoundHalfEven(<<(0 - r2) \div 10, (0 - r2) % 10>>, 10)
    ELSE 10 * RoundHalfEven(<<r2 \div 10, r2 % 10>>, 10)

\* the defaults of --min-yield-r2 (0.7) and --min-grade-r2 (0.65)
RequiredR2(target_key) == IF target_key = "yield_kg" THEN 7 * (10 ^ 6) ELSE 65 * (10 ^ 5)

\* the holdout R2 of the estimator fitted for a target, in units of 10^-7:
\* negative, less than 5 * 10^-7 below the target's threshold, above it
HoldoutR2(target_key) == {0 - 3 * (10 ^ 6), RequiredR2(target_key) - 4, 9 * (10 ^ 6)}

\* a plausible slip: only the yield model is held to its threshold
GateFailuresYieldOnly(r2) ==
    {i \in 1..Len(r2) : i = 1 /\ r2[i].reported < RequiredR2(TARGET_KEYS[i])}

\* quality_gate_failures: the targets whose reported R2 is below the
\* required one
GateFailures(r2) == {i \in 1..Len(r2) : r2[i].reported < RequiredR2(TARGET_KEYS[i])}

\* main() starts: the arguments are parsed, the model directory exists
StartTraining ==
    \E dataset \in TrainingDatasets :
        /\ train.pc = "idle"
        /\ train.run < MaxRuns
        /\ train' = [NoTraining(train.run + 1) EXCEPT
                        !.pc = "prepare", !.dataset = dataset, !.before = model_dir]
        /\ UNCHANGED <<variant, models_loaded, models, op, req, resp, log, threads, model_dir>>

\* cleaned_df, dataset_quality = _load_and_prepare_dataset(...): a
\* ValueError ends the run
PrepareDataset ==
    /\ train.pc = "prepare"
    /\ \E outcome \in {_load_and_prepare_dataset(train.dataset)} :
        train' = [train EXCEPT !.pc = IF outcome.what = "" THEN "train" ELSE "failed",
                               !.error = IF outcome.what = "" THEN "" ELSE "ValueError",
                               !.prepared = outcome, !.i = 1]
    /\ UNCHANGED <<variant, models_loaded, models, op, req, resp, log, threads, model_dir>>

\* one turn of the loop over TARGET_KEYS: _train_one_target raises
\* RuntimeError, or returns the estimator and its summary with the
\* holdout R2 rounded to 6 places; after the last target the report is
\* written to model_metadata.json.  The header and the column bindings
\* were locals of _load_and_prepare_dataset.
TrainTarget ==
    /\ train.pc = "train"
    /\ \/ /\ train' = [train EXCEPT !.pc = "failed", !.error = "RuntimeError"]
          /\ UNCHANGED model_dir
       \/ \E holdout \in HoldoutR2(TARGET_KEYS[train.i]) :
            /\ train' = [train EXCEPT
                            !.dataset = <<>>, !.prepared = <<>>,
                            !.r2 = Append(@, [holdout |-> holdout, reported |-> Round6(holdout)]),
                            !.i = IF @ < Len(TARGET_KEYS) THEN @ + 1 ELSE 1,
                            !.pc = IF train.i < Len(TARGET_KEYS) THEN "train" ELSE "gate"]
            /\ model_dir' = IF train.i < Len(TARGET_KEYS) THEN model_dir
                            ELSE [model_dir EXCEPT !.metadata = train.run]
    /\ UNCHANGED <<variant, models_loaded, models, op, req, resp, log, threads>>

\* if quality_gate_failures: the fitted estimators are dumped one by one
\* under failed_training/<timestamp>, then RuntimeError
SaveFailed ==
    /\ train.pc = "gate"
    /\ GateFailures(train.r2) # {}
    /\ model_dir' = [model_dir EXCEPT
                        !.failed_training = @ \cup {<<train.run, TARGET_KEYS[train.i]>>}]
    /\ train' = IF train.i < Len(TARGET_KEYS) THEN [train EXCEPT !.i = @ + 1]
                ELSE [train EXCEPT !.pc = "failed", !.error = "RuntimeError"]
    /\ UNCHANGED <<variant, models_loaded, models, op, req, resp, log, threads>>

\* otherwise the fitted estimators are dumped one by one over the
\* production artifacts
Publish ==
    /\ train.pc = "gate"
    /\ GateFailures(train.r2) = {}
    /\ model_dir' = [model_dir EXCEPT !.artifacts[TARGET_KEYS[train.i]] = train.run]
    /\ train' = IF train.i < Len(TARGET_KEYS) THEN [train EXCEPT !.i = @ + 1]
                ELSE [train EXCEPT !.pc = "done"]
    /\ UNCHANGED <<variant, models_loaded, models, op, req, resp, log, threads>>

\* the process exits
EndTraining ==
    /\ train.pc \in {"done", "failed"}
    /\ train' = NoTraining(train.run)
    /\ UNCHANGED <<variant, models_loaded, models, op, req, resp, log, threads, model_dir>>

\* runs of the training script, one after the other, on the model
\* directory of a backend that serves models fitted on the extended schema
TrainInit ==
    /\ Init
    /\ variant = "backend"
    /\ op = "idle"
    /\ \A name \in DOMAIN models :
            models[name].n_features_in_ = Len(BACKEND_FEATURE_KEYS)

TrainNext ==
    \/ StartTraining \/ PrepareDataset \/ TrainTarget \/ SaveFailed \/ Publish
    \/ EndTraining

TrainSpec == TrainInit /\ [][TrainNext]_vars

(***************************************************************************)
(* Properties of the prediction post-processor.                            *)
(***************************************************************************)
Abs(x) == IF x < 0 THEN 0 - x ELSE x
Sum3(t) == t[1] + t[2] + t[3]

\* C3: for every finite triplet of raw grades, the normalized triplet sums
\* to 100 up to the rounding of the three divisions (one unit of the grid)
\* when at least one component is positive, and is exactly (0, 0, 0) when
\* every component is zero or negative.
SumInvariant ==
    op = "normalize" =>
        /\ (\E i \in 1..3 : req[i] > 0) => Abs(Sum3(resp.once) - Flt(100)) <= 1
        /\ (\A i \in 1..3 : req[i] <= 0) => resp.once = <<0, 0, 0>>

\* a triplet with a negative, a zero and a positive component has been
\* normalized
SumInvariantWitness ==
    /\ op = "normalize"
    /\ req = <<Flt(-2), 0, Flt(11)>>
    /\ resp.once = <<0, 0, Flt(100)>>

\* C4: every component of a normalized triplet is zero or positive, also
\* when a raw component was negative.
NonNegativity ==
    op = "normalize" =>
        \A i \in 1..3 : resp.once[i] >= 0 /\ resp.twice[i] >= 0

NonNegativityWitness ==
    /\ op = "normalize"
    /\ req = <<Flt(-2), Flt(40), Flt(60)>>
    /\ resp.once = <<0, Flt(40), Flt(60)>>

\* C5 as stated: normalizing a normalized triplet gives the same triplet.
\* The divisions round, so the first result need not sum to 100 exactly and
\* the second pass moves it.
ExactIdempotence ==
    op = "normalize" => resp.twice = resp.once

\* C5: normalizing a normalized triplet gives the same triplet up to the
\* rounding of the divisions: each component moves by at most one unit of
\* the grid, and a triplet that sums to 100 exactly, or is (0, 0, 0), does
\* not move at all.
IdempotenceUpToRounding ==
    op = "normalize" =>
        /\ \A i \in 1..3 : Abs(resp.twice[i] - resp.once[i]) <= 1
        /\ Sum3(resp.once) \in {0, Flt(100)} => resp.twice = resp.once

\* a triplet whose normal form is off 100 by a rounding has been normalized
\* twice, and the second pass changed it
IdempotenceWitness ==
    /\ op = "normalize"
    /\ Sum3(resp.once) # Flt(100)
    /\ Sum3(resp.once) > 0
    /\ resp.twice # resp.once

(***************************************************************************)
(* Properties of the prediction results.                                   *)
(***************************************************************************)
GradesOf(body) ==
    <<body.fine_grade_pct, body.premium_grade_pct, body.commercial_grade_pct>>

\* the prediction results in the response the worker holds
ResultsHeld ==
    IF op = "predict" /\ resp.status = 200 THEN {resp.body}
    ELSE IF op = "predict_batch"
        THEN {resp.body.predictions[i].prediction :
                i \in {j \in 1..Len(resp.body.predictions) :
                            "prediction" \in DOMAIN resp.body.predictions[j]}}
    ELSE {}

\* one thousandth, the step of the rounded percentages
Milli == Scale \div 1000

\* C6 as stated: the three rounded grade percentages of every result are
\* zero or positive and sum to exactly 0 or exactly 100.  Rounding to three
\* decimals moves the sum: three thirds give 33.333 three times.
RoundedGradesSumExactly ==
    \A body \in ResultsHeld :
        /\ \A i \in 1..3 : GradesOf(body)[i] >= 0
        /\ Sum3(GradesOf(body)) \in {0, Flt(100)}

\* C6: the three rounded grade percentages of every result are zero or
\* positive, and their sum is exactly 0 or within 0.002 of 100.
RoundedGradesSum ==
    \A body \in ResultsHeld :
        /\ \A i \in 1..3 : GradesOf(body)[i] >= 0
        /\ \/ Sum3(GradesOf(body)) = 0
           \/ Abs(Sum3(GradesOf(body)) - Flt(100)) <= 2 * Milli

\* a result whose rounded grades sum to 99.999 has been returned
RoundedGradesSumWitness ==
    /\ op = "predict"
    /\ resp.status = 200
    /\ GradesOf(resp.body) = <<Flt(33) + 333 * Milli, Flt(33) + 333 * Milli,
                               Flt(33) + 333 * Milli>>

\* the raw outputs of the fine, premium and commercial models that a
\* successful request was answered from: its last three predict calls
RawGrades3(events) == [i \in 1..3 |-> events[Len(events) - 3 + i].out.v]

BACKEND_RESPONSE_KEYS ==
    {"yield_kg", "fine_grade_pct", "premium_grade_pct", "commercial_grade_pct",
     "dominant_grade", "grade_label"}

\* C7: a successful backend /predict response has the six keys yield_kg,
\* fine_grade_pct, premium_grade_pct, commercial_grade_pct, dominant_grade
\* and grade_label, and when at least one raw grade output of the models is
\* positive its three grade percentages sum to within 0.2 of 100.
BackendPredictContract ==
    (variant = "backend" /\ op = "predict" /\ resp.status = 200) =>
        /\ BACKEND_RESPONSE_KEYS \subseteq DOMAIN resp.body
        /\ (\E i \in 1..3 : RawGrades3(log)[i] > 0) =>
                Abs(Sum3(GradesOf(resp.body)) - Flt(100)) <= Scale \div 5

\* the backend has answered a request from raw grades -2, 40 and 60
BackendPredictContractWitness ==
    /\ variant = "backend"
    /\ op = "predict"
    /\ resp.status = 200
    /\ RawGrades3(log) = <<Flt(-2), Flt(40), Flt(60)>>
    /\ GradesOf(resp.body) = <<0, Flt(40), Flt(60)>>
    /\ resp.body.dominant_grade = "Commercial"

(***************************************************************************)
(* Properties of the batch endpoint.                                       *)
(***************************************************************************)
\* whether the features of a sample, sent alone, give a prediction
Succeeds(features) == _predict_internal(variant, models, features).ok

\* C1: the batch response has exactly one entry per sample, in the order of
\* the samples: entry i carries the id of sample i and the outcome, a
\* prediction or an error, of the features of sample i; an empty list of
\* samples gives an empty list of predictions.
BatchOrder ==
    op = "predict_batch" =>
        /\ resp.status = 200
        /\ Len(resp.body.predictions) = Len(req.samples)
        /\ \A i \in 1..Len(req.samples) :
            /\ i <= Len(resp.body.predictions)
            /\ resp.body.predictions[i].id = req.samples[i].id
            /\ ("prediction" \in DOMAIN resp.body.predictions[i])
                    = Succeeds(req.samples[i].features)

\* two samples with different ids and different features were both
\* answered with a prediction, each its own
BatchOrderWitness ==
    /\ op = "predict_batch"
    /\ Len(req.samples) = 2
    /\ req.samples[1].id # req.samples[2].id
    /\ Len(resp.body.predictions) = 2
    /\ \A i \in 1..2 : "prediction" \in DOMAIN resp.body.predictions[i]
    /\ resp.body.predictions[1].prediction # resp.body.predictions[2].prediction

\* entry e is what the single endpoint answered for the same features
\* alone: its body as the prediction, or its error message as the error
SameAsAlone(e, alone) ==
    IF alone.status = 200
        THEN DOMAIN e = {"id", "prediction"} /\ e.prediction = alone.body
        ELSE DOMAIN e = {"id", "error"} /\ e.error = alone.detail

\* C2: a sample whose features fail gets an entry with an error and no
\* prediction, the batch is still answered, and every sample's entry is
\* what the single endpoint returns for that sample alone, whatever the
\* other samples of the batch are.
BatchIsolation ==
    op = "predict_batch" =>
        /\ resp.status = 200
        /\ \A i \in 1..Len(req.samples) :
            /\ i <= Len(resp.body.predictions)
            /\ SameAsAlone(resp.body.predictions[i],
                           predict(variant, models, req.samples[i].features).resp)

\* a batch whose first sample failed and whose second was predicted
BatchIsolationWitness ==
    /\ op = "predict_batch"
    /\ Len(req.samples) = 2
    /\ Len(resp.body.predictions) = 2
    /\ DOMAIN resp.body.predictions[1] = {"id", "error"}
    /\ DOMAIN resp.body.predictions[2] = {"id", "prediction"}

(***************************************************************************)
(* Properties of request validation and error classification.              *)
(***************************************************************************)
WrongLength(features) ==
    features.kind = "list" /\ Len(features.items) # Len(FEATURE_KEYS(variant))

\* some value of the payload is an integer beyond the range of a float
HasHuge(features) ==
    \/ \E i \in 1..Len(features.items) : features.items[i].k = "huge"
    \/ \E i \in 1..Len(features.pairs) : features.pairs[i][2].k = "huge"

LengthMessage(features) ==
    [what |-> "Invalid feature length",
     expected |-> Len(FEATURE_KEYS(variant)),
     received |-> Len(features.items)]

\* C8: a list of features whose length is not the variant's number of
\* features is answered 422 with a message naming the expected and the
\* received length, loaded models or not, and no model is called for it;
\* in a batch it gives that message as the sample's error.
LengthRejected ==
    /\ (op = "predict" /\ WrongLength(req.features)) =>
            /\ resp.status = 422
            /\ resp.detail = LengthMessage(req.features)
            /\ log = <<>>
    /\ op = "predict_batch" =>
            \A i \in 1..Len(req.samples) :
                WrongLength(req.samples[i].features) =>
                    /\ i <= Len(resp.body.predictions)
                    /\ DOMAIN resp.body.predictions[i] = {"id", "error"}
                    /\ resp.body.predictions[i].error
                            = LengthMessage(req.samples[i].features)
                    /\ log[i] = <<>>

\* a list one too long was rejected by a service whose models did not load
LengthRejectedWitness ==
    /\ op = "predict"
    /\ ~models_loaded
    /\ req.features.kind = "list"
    /\ Len(req.features.items) = Len(FEATURE_KEYS(variant)) + 1
    /\ resp.status = 422
    /\ resp.detail.expected = Len(FEATURE_KEYS(variant))
    /\ resp.detail.received = Len(FEATURE_KEYS(variant)) + 1

\* the request ended in a predict call that raised
ModelRaisedLast ==
    /\ log # <<>>
    /\ log[Len(log)].ev = "predict"
    /\ log[Len(log)].out.k # "ok"

\* C9 as stated: 422 is answered only for a malformed request, and 500
\* whenever the exception that ends the request was raised by a model's
\* predict call, whatever its type.
ErrorClassification ==
    op = "predict" =>
        /\ resp.status = 422 => WrongLength(req.features)
        /\ ModelRaisedLast => resp.status = 500

(***************************************************************************)
(* Properties of the assembled feature record.                             *)
(***************************************************************************)
\* the events of the requests the worker holds
EventsHeld ==
    IF op = "predict" THEN {log[i] : i \in 1..Len(log)}
    ELSE IF op = "predict_batch"
        THEN UNION {{log[s][i] : i \in 1..Len(log[s])} : s \in 1..Len(log)}
    ELSE {}

\* the features payloads of the requests the worker holds, with their events
PayloadsHeld ==
    IF op = "predict" THEN {<<req.features, log>>}
    ELSE IF op = "predict_batch"
        THEN {<<req.samples[s].features, log[s]>> : s \in 1..Len(log)}
    ELSE {}

\* C10: for every mapping, whatever keys it has or lacks, and every list of
\* the right length, a record is assembled (unless the coercion of a value
\* raises), and the keys of every assembled record are exactly the
\* variant's canonical keys, each once; the legacy vector has one value per
\* canonical key.
CanonicalKeySet ==
    /\ \A p \in PayloadsHeld :
        (~WrongLength(p[1]) /\ ~HasHuge(p[1])) =>
            /\ p[2] # <<>>
            /\ p[2][1].ev = "assembled"
            /\ p[2][1].path = "frame"
    /\ \A e \in EventsHeld :
        e.ev = "assembled" =>
            /\ Len(e.cells) = Len(FEATURE_KEYS(variant))
            /\ e.path = "frame" =>
                /\ Len(e.cols) = Len(FEATURE_KEYS(variant))
                /\ Range(e.cols) = Range(FEATURE_KEYS(variant))

\* a record was assembled from a mapping with two canonical keys and one
\* unknown key
CanonicalKeySetWitness ==
    /\ op = "predict"
    /\ req.features = PartialDict
    /\ log # <<>>
    /\ log[1].ev = "assembled"
    /\ "unknown_key" \notin Range(log[1].cols)
    /\ "soil_ph" \in Range(log[1].cols)
    /\ "elevation_m" \in Range(log[1].cols)

(***************************************************************************)
(* Properties of the order of the assembled record.                        *)
(***************************************************************************)
\* C11 as stated: in both variants the columns of every assembled frame
\* are the variant's FEATURE_KEYS, in the order of that list, for a mapping
\* and for a list alike.  The api variant fills its dictionary with the
\* numeric keys first and the categorical keys last.
CanonicalOrder ==
    \A e \in EventsHeld :
        (e.ev = "assembled" /\ e.path = "frame") => e.cols = FEATURE_KEYS(variant)

(***************************************************************************)
(* Properties of the values of the assembled record.                       *)
(***************************************************************************)
\* the value an assembled frame holds for a key
CellAt(e, key) == e.cells[IndexIn(key, e.cols)]

\* the value the legacy vector holds at the position of a key
VectorAt(e, key) == e.cells[IndexIn(key, BACKEND_FEATURE_KEYS)]

\* the frames assembled for the scenario mapping {fertilizer_type:
\* "Natural", pesticide_frequency: "Occasionally", shade_tree_present:
\* "Present"}
ScenarioFrames ==
    IF op = "predict" /\ req.features = ScenarioDict
        THEN {e \in EventsHeld : e.ev = "assembled" /\ e.path = "frame"}
        ELSE {}

\* C12 as stated: in both variants the record assembled for the scenario
\* mapping has fertilizer_type "organic", pesticide_frequency "rarely" and
\* shade_tree_present true.  The backend has no synonym lists: it stores
\* the missing-value marker for all three.
ScenarioInEachVariant ==
    \A e \in ScenarioFrames :
        /\ CellAt(e, "fertilizer_type") = PyStr(W.organic)
        /\ CellAt(e, "pesticide_frequency") = PyStr(W.rarely)
        /\ CellAt(e, "shade_tree_present") = PyBool(TRUE)

\* C12: for the scenario mapping the api variant assembles fertilizer_type
\* "organic", pesticide_frequency "rarely", shade_tree_present true,
\* fertilizer_frequency "never", pesticide_type "none" and 0.0 for every
\* numeric key; the backend's frame holds NaN for the three given keys, as
\* for every other key but the two identifiers, which are 0.0.
ScenarioPerVariant ==
    \A e \in ScenarioFrames :
        IF variant = "api"
            THEN /\ CellAt(e, "fertilizer_type") = PyStr(W.organic)
                 /\ CellAt(e, "pesticide_frequency") = PyStr(W.rarely)
                 /\ CellAt(e, "shade_tree_present") = PyBool(TRUE)
                 /\ CellAt(e, "fertilizer_frequency") = PyStr(W.never)
                 /\ CellAt(e, "pesticide_type") = PyStr(W.none)
                 /\ \A key \in Range(e.cols) \ DATAFRAME_CATEGORICAL_KEYS :
                        CellAt(e, key) = PyFloat(0)
            ELSE \A key \in Range(e.cols) :
                    CellAt(e, key) = IF key \in IDENTIFIER_KEYS THEN PyFloat(0) ELSE PyNaN

\* the api has assembled the record of the scenario mapping
ScenarioWitness ==
    /\ variant = "api"
    /\ op = "predict"
    /\ req.features = ScenarioDict
    /\ ScenarioFrames # {}
    /\ \A e \in ScenarioFrames : CellAt(e, "pesticide_frequency") = PyStr(W.rarely)

(***************************************************************************)
(* Properties of value coercion.                                           *)
(***************************************************************************)
\* C13 as stated: no field value makes a coercion raise, so every
\* well-shaped request gets its record assembled, and every value of the
\* record is a float (NaN included), a text or a boolean.  float() of an
\* integer beyond the float range raises OverflowError, which the numeric
\* branch of _feature_dataframe does not catch, and np.isnan of such an
\* integer raises TypeError in _to_number.
CoercionTotality ==
    /\ \A p \in PayloadsHeld :
        ~WrongLength(p[1]) => (p[2] # <<>> /\ p[2][1].ev = "assembled")
    /\ \A e \in EventsHeld :
        e.ev = "assembled" =>
            \A i \in 1..Len(e.cells) : e.cells[i].k \in {"float", "nan", "str", "bool"}

(***************************************************************************)
(* Properties of identifier hashing.                                       *)
(***************************************************************************)
\* C14: the hash of an identifier is a float that depends on nothing but
\* the trimmed string form of the argument: every argument other than None
\* with the same trimmed string form has the identical hash, whatever the
\* variant and the models of the process; None, the empty string and
\* white space only hash to exactly 0.0.
HashDeterminism ==
    op = "coerce" =>
        /\ resp.hashed.k = "float"
        /\ \A other \in ScalarInputs :
            (other.k # "none" /\ req.value.k # "none"
                /\ Strip(str(other)) = Strip(str(req.value)))
                    => hash_identifier(other) = resp.hashed
        /\ (req.value.k = "none" \/ Strip(str(req.value)) = <<>>)
                => resp.hashed = PyFloat(0)

\* the text " 7 " was hashed to the hash of the integer 7, which is not 0.0
HashDeterminismWitness ==
    /\ op = "coerce"
    /\ req.value = PyStr(<<" ", "7", " ">>)
    /\ resp.hashed = hash_identifier(PyInt(7))
    /\ resp.hashed # PyFloat(0)

(***************************************************************************)
(* Properties of model loading.                                            *)
(***************************************************************************)
\* C15 as stated: a process that serves requests has loaded its four
\* artifacts, and none of them was fitted on a width other than the number
\* of canonical keys.  The backend checks the yield model only, and the api
\* checks nothing and goes on serving when the load failed.
FailFastLoading ==
    op # "aborted" =>
        /\ models_loaded
        /\ \A name \in Range(MODEL_NAMES) :
            models[name].n_features_in_ \in {0, Len(FEATURE_KEYS(variant))}

(***************************************************************************)
(* Properties of the grade labels.                                         *)
(***************************************************************************)
DominantLabel ==
    [Fine |-> "Fine Dominant", Premium |-> "Premium Dominant",
     Commercial |-> "Commercial Dominant"]
GradeIndex == [Fine |-> 1, Premium |-> 2, Commercial |-> 3]

\* C16: for every triplet of finite grades, dominant_grade names a largest
\* value and no grade before it in the order Fine, Premium, Commercial is
\* as large; grade_label is '<dominant> Dominant' when that value is at
\* least 55, otherwise 'High-Quality Mix' when fine + premium is at least
\* 70, otherwise 'Commercial Mix' when commercial is at least 45, otherwise
\* 'Balanced Mix'.
GradeLabelRules ==
    op = "label" =>
        LET at == GradeIndex[resp.dominant_grade]
            top == req[at]
        IN  /\ \A i \in 1..3 : req[i] <= top
            /\ \A i \in 1..(at - 1) : req[i] < top
            /\ top >= Flt(55) => resp.grade_label = DominantLabel[resp.dominant_grade]
            /\ (top < Flt(55) /\ req[1] + req[2] >= Flt(70)) =>
                    resp.grade_label = "High-Quality Mix"
            /\ (top < Flt(55) /\ req[1] + req[2] < Flt(70) /\ req[3] >= Flt(45)) =>
                    resp.grade_label = "Commercial Mix"
            /\ (top < Flt(55) /\ req[1] + req[2] < Flt(70) /\ req[3] < Flt(45)) =>
                    resp.grade_label = "Balanced Mix"

\* a three-way tie below 55 whose triplet meets both the 70 and the 45
\* condition: the first grade and the earlier condition win
GradeLabelWitness ==
    /\ op = "label"
    /\ req[1] = req[2] /\ req[2] = req[3] /\ req[3] >= Flt(45)
    /\ resp.dominant_grade = "Fine"
    /\ resp.grade_label = "High-Quality Mix"

(***************************************************************************)
(* Properties of the defaults of the assembled record.                     *)
(***************************************************************************)
\* the mapping omits the key, gives it null, or gives it the text "n/a"
Unusable(features, key) ==
    Get(features.pairs, key) \in {PyNone, PyStr(<<"n", "/", "a">>)}

\* the records and vectors assembled for the mappings the worker holds,
\* each with its mapping
AssembledForMappings ==
    UNION {{<<p[1], p[2][i]>> : i \in {j \in 1..Len(p[2]) : p[2][j].ev = "assembled"}} :
                p \in {q \in PayloadsHeld : q[1].kind = "dict"}}

API_CATEGORICAL_DEFAULT ==
    [key \in DATAFRAME_CATEGORICAL_KEYS |->
        CASE key \in TYPE_KEYS -> PyStr(W.none)
          [] key \in FREQUENCY_KEYS -> PyStr(W.never)
          [] OTHER -> PyBool(FALSE)]

\* C17 as stated: in the record either variant assembles, a key the mapping
\* omits or gives no usable value for is 0.0 when
\* it is numeric, and a value of the key's domain (not a missing-value
\* marker) when it is categorical.  The backend's frame holds NaN for both.
DefaultsEverywhere ==
    \A a \in AssembledForMappings :
        a[2].path = "frame" =>
            \A key \in Range(a[2].cols) :
                Unusable(a[1], key) =>
                    IF key \in DATAFRAME_CATEGORICAL_KEYS
                        THEN CellAt(a[2], key).k \in {"str", "bool"}
                        ELSE key \notin IDENTIFIER_KEYS => CellAt(a[2], key) = PyFloat(0)

\* C17: for a key the mapping omits or gives no usable value for, the api
\* record holds 0.0 when the key is numeric, "none" for a type key, "never"
\* for a frequency key and false for shade_tree_present; the backend's
\* frame holds NaN for every numeric and every categorical key, and 0.0 for
\* an omitted identifier key; the backend's legacy vector holds 0.0 at
\* every such key.
DefaultsPerPath ==
    \A a \in AssembledForMappings :
        IF a[2].path = "vector"
            THEN \A key \in Range(BACKEND_FEATURE_KEYS) :
                    Unusable(a[1], key) => VectorAt(a[2], key) = PyFloat(0)
        ELSE \A key \in Range(a[2].cols) :
                Unusable(a[1], key) =>
                    IF variant = "api"
                        THEN CellAt(a[2], key) =
                                IF key \in DATAFRAME_CATEGORICAL_KEYS
                                    THEN API_CATEGORICAL_DEFAULT[key] ELSE PyFloat(0)
                    ELSE IF key \in IDENTIFIER_KEYS
                        THEN Get(a[1].pairs, key) = PyNone => CellAt(a[2], key) = PyFloat(0)
                    ELSE CellAt(a[2], key) = PyNaN

\* the backend assembled first the frame and then the legacy vector for a
\* mapping that omits soil_ph's neighbours but gives soil_ph
DefaultsWitness ==
    /\ variant = "backend"
    /\ op = "predict"
    /\ req.features = PartialDict
    /\ \E a \in AssembledForMappings :
            a[2].path = "frame" /\ CellAt(a[2], "avg_temp_c") = PyNaN
    /\ \E a \in AssembledForMappings :
            a[2].path = "vector" /\ VectorAt(a[2], "avg_temp_c") = PyFloat(0)

(***************************************************************************)
(* Properties of concurrent requests.                                      *)
(***************************************************************************)
\* the response of the thread's request when it is the only request
AloneResponse(v, ms, th) ==
    IF th.kind = "predict" THEN predict(v, ms, th.samples[1].features).resp
    ELSE predict_batch(v, ms, th.samples).resp

\* every thread that has its response has the response of its request run
\* alone
ResponsesAsAlone ==
    \A t \in Threads :
        threads[t].pc = "done" =>
            threads[t].resp = AloneResponse(variant, models, threads[t])

\* C18: under every interleaving of the steps of predict and predict_batch
\* calls on two threads, each request's response equals the response of
\* that request run alone against the loaded models, and no step of a
\* handler changes the loaded models, models_loaded or the variant.
NoInterference ==
    /\ []ResponsesAsAlone
    /\ [][UNCHANGED <<variant, models_loaded, models>>]_vars

\* one thread has answered a request while the other is between two samples
\* of a batch, its second frame assembled
NoInterferenceWitness ==
    /\ threads[1].pc = "done" /\ threads[1].kind = "predict"
    /\ threads[1].resp.status = 200
    /\ threads[2].pc = "call" /\ threads[2].kind = "predict_batch" /\ threads[2].i = 2

(***************************************************************************)
(* Properties of _to_number.                                               *)
(***************************************************************************)
FREQUENCY_WORDS == {<<W.never, 1>>, <<W.rarely, 2>>, <<W.sometimes, 3>>, <<W.often, 4>>}
\* the type table as the specification gives it
TYPE_WORDS_STATED ==
    {<<W.organic, 1>>, <<W.non_dash_organic, 2>>, <<W.non_under_organic, 2>>,
     <<W.nonorganic, 2>>, <<W.none, 0>>}
\* the type table that describes variant v: the api also has synthetic
TYPE_WORDS(v) ==
    IF v = "api" THEN TYPE_WORDS_STATED \cup {<<W.synthetic, 2>>} ELSE TYPE_WORDS_STATED
BOOLEAN_WORDS ==
    {<<W.yes, 1>>, <<W.true, 1>>, <<W.one, 1>>, <<W.no, 0>>, <<W.false, 0>>, <<W.zero, 0>>}

Holds(table, text) == \E p \in table : p[1] = text
NumberIn(table, text) == PyFloat(Flt((CHOOSE p \in table : p[1] = text)[2]))

\* the value of the first that applies, for a text already trimmed and
\* lower-cased
FirstThatApplies(types, text) ==
    IF text = <<>> THEN PyFloat(0)
    ELSE IF Holds(FREQUENCY_WORDS, text) THEN NumberIn(FREQUENCY_WORDS, text)
    ELSE IF Holds(types, text) THEN NumberIn(types, text)
    ELSE IF Holds(BOOLEAN_WORDS, text) THEN NumberIn(BOOLEAN_WORDS, text)
    ELSE IF ParseFloat(text).ok THEN ParseFloat(text).v
    ELSE PyFloat(0)

\* the fallback chain on a value that is no integer beyond the 64-bit range
ChainValue(types, value) ==
    CASE value.k = "none" -> PyFloat(0)
      [] value.k = "bool" -> IF value.b THEN PyFloat(Flt(1)) ELSE PyFloat(0)
      [] value.k = "int" -> PyFloat(Flt(value.n))
      [] value.k = "float" -> PyFloat(value.n)
      [] value.k = "nan" -> PyFloat(0)
      [] OTHER -> FirstThatApplies(types, Lower(Strip(value.s)))

\* C19 as stated: in both variants _to_number gives every number its float
\* value and every text the value of the first that applies of the
\* frequency table, the type table (organic 1, non-organic and its
\* spellings 2, none 0), the boolean table, a float parse and 0.0.  The
\* api's type table also has synthetic, and an integer beyond the 64-bit
\* range raises.
FallbackChainAsStated ==
    op = "coerce" =>
        \A v \in {"backend", "api"} :
            IF req.value.k = "huge" THEN resp.number[v].k = "float"
            ELSE resp.number[v] = ChainValue(TYPE_WORDS_STATED, req.value)

\* C19: _to_number gives None 0.0, booleans 1.0 / 0.0, a number its float
\* value, NaN 0.0, and raises TypeError for an integer beyond the 64-bit
\* range; a text is trimmed and lower-cased, the empty text gives 0.0,
\* otherwise it gives the value of the first that applies of the frequency
\* table, the type table (in the api with synthetic 2), the boolean table,
\* a float parse, and finally 0.0.
FallbackChain ==
    op = "coerce" =>
        \A v \in {"backend", "api"} :
            resp.number[v] = IF req.value.k = "huge" THEN PyRaise("TypeError")
                             ELSE ChainValue(TYPE_WORDS(v), req.value)

\* the word on which the two variants differ has been coerced
FallbackChainWitness ==
    /\ op = "coerce"
    /\ req.value = PyStr(W.synthetic)
    /\ resp.number["api"] = PyFloat(Flt(2))
    /\ resp.number["backend"] = PyFloat(0)

(***************************************************************************)
(* Properties of the identifier keys.                                      *)
(***************************************************************************)
\* the value a payload of the right shape gives for a key of the backend
RawValue(features, key) ==
    IF features.kind = "list" THEN features.items[IndexIn(key, BACKEND_FEATURE_KEYS)]
    ELSE Get(features.pairs, key)

\* C20 as stated: in every frame and every legacy vector the backend
\* assembles, the values at farm_id and cluster_id are hash_identifier of
\* the raw values.  _legacy_numeric_vector puts _to_number of the raw value
\* there.
IdentifiersHashed ==
    variant = "backend" =>
        \A p \in PayloadsHeld :
            \A i \in 1..Len(p[2]) :
                p[2][i].ev = "assembled" =>
                    \A key \in IDENTIFIER_KEYS :
                        VectorAt(p[2][i], key) = hash_identifier(RawValue(p[1], key))

(***************************************************************************)
(* Properties of alias resolution and of dataset preparation.              *)
(***************************************************************************)
\* the run has resolved the columns of its dataset, whose header it still
\* holds
HasResolved ==
    \/ train.pc = "train" /\ train.r2 = <<>>
    \/ train.pc = "failed" /\ train.error = "ValueError"
                           /\ train.prepared.what # "Dataset is empty."

\* cols binds every key of the alias map that has an alias among the
\* available columns to the first such alias of its list, and no other key
BindsFirstPresent(cols, alias_map, available) ==
    \A key \in DOMAIN alias_map :
        IF \E i \in 1..Len(alias_map[key]) : alias_map[key][i] \in available
            THEN /\ key \in DOMAIN cols
                 /\ cols[key] \in available
                 /\ \E i \in 1..Len(alias_map[key]) :
                        /\ alias_map[key][i] = cols[key]
                        /\ \A j \in 1..(i - 1) : alias_map[key][j] \notin available
            ELSE key \notin DOMAIN cols

\* the bindings of the run are those of the claim for the normalised
\* header cols
ResolvedAsStated(cols) ==
    /\ BindsFirstPresent(train.prepared.feature_cols, FEATURE_ALIASES, Range(cols))
    /\ BindsFirstPresent(train.prepared.target_cols, TARGET_ALIASES, Range(cols))
    /\ resolve_aliases(Reversed(cols), FEATURE_ALIASES) = train.prepared.feature_cols
    /\ resolve_aliases(Reversed(cols), TARGET_ALIASES) = train.prepared.target_cols

\* C21: resolve_aliases binds each canonical key to the first alias of its
\* list that is among the available columns, binds no key none of whose
\* aliases is available, and gives the same result for the columns in
\* reverse order.
AliasResolution ==
    HasResolved => ResolvedAsStated(NormalizedColumns(train.dataset.columns))

\* the header holds farm_area before farm_area_ha and not farm_size_ha: the
\* key is bound to farm_area_ha, the earlier of the two in its alias list
AliasResolutionWitness ==
    /\ HasResolved
    /\ train.dataset.columns[1] = FEATURE_ALIASES.farm_size_ha[3]
    /\ train.dataset.columns[2] = FEATURE_ALIASES.farm_size_ha[2]
    /\ train.prepared.feature_cols["farm_size_ha"] = FEATURE_ALIASES.farm_size_ha[2]

(***************************************************************************)
(* Properties of the feature record at inference.                          *)
(***************************************************************************)
\* C22 as stated: a mapping that gives the value of soil_ph under its
\* registered alias "ph" yields the Feature Record of the mapping that gives
\* it under soil_ph.  _feature_object reads features.get(key) for the
\* canonical keys only.
AliasAsCanonical ==
    (/\ variant = "backend" /\ op = "predict" /\ req.features = AliasedDict
     /\ FEATURE_ALIASES.soil_ph[3] = <<"p", "h">>) =>
        _feature_object(req.features) = _feature_object(PartialDict)

\* the canonical domain of a categorical key: modeling.py 168-172 for the
\* backend, the values of the api's mappers for the api
CanonicalDomain(v, key) ==
    IF key \in FREQUENCY_KEYS
        THEN {PyStr(W.never), PyStr(W.rarely), PyStr(W.sometimes), PyStr(W.often)}
    ELSE IF key \in TYPE_KEYS
        THEN (IF v = "api" THEN {PyStr(W.none), PyStr(W.organic), PyStr(W.synthetic)}
              ELSE {PyStr(W.organic), PyStr(W.non_dash_organic)})
    ELSE IF key = "shade_tree_present"
        THEN (IF v = "api" THEN {PyBool(TRUE), PyBool(FALSE)}
              ELSE {PyStr(W.yes), PyStr(W.no)})
    ELSE IF key = "flood_risk_level" THEN {PyStr(t) : t \in FLOOD_RISK_CANONICAL}
    ELSE {PyStr(t) : t \in BEAN_SCREEN_CANONICAL}

\* the numbers that stand for the members of the domain in a legacy vector
\* (the values of FREQ_MAP, TYPE_MAP and BOOL_MAP of the backend); 0.0
\* stands for unknown
LegacyCodes(key) ==
    IF key \in FREQUENCY_KEYS THEN {PyFloat(Flt(n)) : n \in 1..4}
    ELSE IF key \in TYPE_KEYS THEN {PyFloat(Flt(1)), PyFloat(Flt(2))}
    ELSE IF key = "shade_tree_present" THEN {PyFloat(Flt(1))}
    ELSE {}

\* in every input of the given paths assembled for the models, each
\* categorical value is a member of its key's domain or the unknown marker
CategoricalCellsIn(paths) ==
    \A p \in PayloadsHeld :
        \A i \in 1..Len(p[2]) :
            (p[2][i].ev = "assembled" /\ p[2][i].path \in paths) =>
                IF p[2][i].path = "vector"
                    THEN \A key \in DATAFRAME_CATEGORICAL_KEYS :
                            VectorAt(p[2][i], key) \in LegacyCodes(key) \cup {PyFloat(0)}
                ELSE \A key \in DATAFRAME_CATEGORICAL_KEYS \cap Range(p[2][i].cols) :
                        CellAt(p[2][i], key) \in
                            CanonicalDomain(variant, key)
                                \cup {IF variant = "api" THEN API_CATEGORICAL_DEFAULT[key]
                                      ELSE PyNaN}

\* C23 as stated: every categorical value of an assembled input, frame or
\* legacy vector, is a member of the key's canonical domain or the unknown
\* marker.  _legacy_numeric_vector puts _to_number of the raw value there,
\* which is the number itself for a number or a numeric text.
CategoricalInDomain == CategoricalCellsIn({"frame", "vector"})

(***************************************************************************)
(* Properties of the registries' sizes.                                    *)
(***************************************************************************)
\* the simple registry has `simple` keys and the extended one `extended`;
\* health reports the count of the variant's registry, and a positional
\* list is refused for its length exactly when its length is not that count
RegistryCounts(simple, extended) ==
    /\ Len(API_FEATURE_KEYS) = simple
    /\ Len(BACKEND_FEATURE_KEYS) = extended
    /\ op = "health" =>
            resp.expected_features = (IF variant = "api" THEN simple ELSE extended)
    /\ (op = "predict" /\ req.features.kind = "list") =>
            IF Len(req.features.items) # (IF variant = "api" THEN simple ELSE extended)
                THEN /\ resp.status = 422
                     /\ resp.detail.what = "Invalid feature length"
                     /\ resp.detail.expected =
                            (IF variant = "api" THEN simple ELSE extended)
                     /\ resp.detail.received = Len(req.features.items)
                ELSE resp.status = 200 \/ resp.detail.what # "Invalid feature length"

\* C24 as stated: 18 keys in the simple registry and 38 in the extended
\* one.  backend/modeling.py FEATURE_KEYS lists 39 keys.
RegistrySizesAsStated == RegistryCounts(18, 38)

\* C24: the simple registry has exactly 18 keys and the extended one exactly
\* 39; that count is what health reports as the expected feature count and
\* what the length of a positional list is validated against.
RegistrySizes == RegistryCounts(18, 39)

\* the backend refuses a list of 38 values, expecting 39, and its health
\* has reported 39
RegistrySizesWitness ==
    /\ variant = "backend"
    /\ op = "predict"
    /\ req.features.kind = "list"
    /\ Len(req.features.items) = 38
    /\ resp.status = 422
    /\ resp.detail.expected = 39
    /\ health(variant, models_loaded, model_dir).expected_features = 39

\* the keys none of whose aliases is among the available columns, in the
\* order of keys
MissingIn(keys, alias_map, available) ==
    SelectSeq(keys, LAMBDA key :
        \A i \in 1..Len(alias_map[key]) : alias_map[key][i] \notin available)

\* the run holds the outcome of the preparation of its dataset
HasPrepared ==
    \/ train.pc = "train" /\ train.r2 = <<>>
    \/ train.pc = "failed" /\ train.error = "ValueError"

\* the run has ended in ValueError with no model fitted and the model
\* directory as it was when the run started
FailedBeforeFitting ==
    /\ train.pc = "failed"
    /\ train.error = "ValueError"
    /\ train.r2 = <<>>
    /\ model_dir = train.before

\* the mapping an inference client sends when it has the values of
\* exactly the keys that the columns of the dataset give
MappingOfBound(feature_cols) ==
    DictInput(SelectSeq(KeyedFill(BACKEND_FEATURE_KEYS, PyInt(5)),
                        LAMBDA pair : pair[1] \in DOMAIN feature_cols))

\* the backend assembles the mapping without error, with None for the
\* keys it lacks
DefaultsAtInference(features) ==
    /\ _feature_object(features).ok
    /\ \A key \in Range(BACKEND_FEATURE_KEYS) :
            Get(features.pairs, key) = PyNone =>
                Get(_feature_object(features).val, key) = PyNone
    /\ _feature_dataframe(_feature_object(features).val).ok
    /\ _legacy_numeric_vector(_feature_object(features).val).ok

\* C25 as stated: whenever a feature or target key has no alias among the
\* normalised columns, preparation fails with a validation error that
\* names the missing keys, before a model is fitted or a file written.
\* The error names the missing features only when features and targets are
\* both missing, and names no key for a dataset without rows.
PreparationNamesMissing ==
    HasPrepared =>
        \A missing \in {MissingIn(BACKEND_FEATURE_KEYS, FEATURE_ALIASES,
                                  Range(NormalizedColumns(train.dataset.columns)))
                          \o MissingIn(TARGET_KEYS, TARGET_ALIASES,
                                       Range(NormalizedColumns(train.dataset.columns)))} :
            missing # <<>> => FailedBeforeFitting /\ train.prepared.keys = missing

\* the outcome of the preparation of a dataset with the given rows whose
\* missing feature keys are mf and missing target keys mt
FailsNaming(rows, mf, mt) ==
    /\ FailedBeforeFitting
    /\ IF rows = "none"
        THEN train.prepared.what = "Dataset is empty." /\ train.prepared.keys = <<>>
       ELSE IF mf # <<>>
        THEN /\ train.prepared.what = "Dataset is missing required feature columns: "
             /\ train.prepared.keys = mf
       ELSE /\ train.prepared.what = "Dataset is missing required target columns: "
            /\ train.prepared.keys = mt

\* the run, whose dataset misses the feature keys mf and the target keys
\* mt, has failed as amended, and the mapping without the keys mf is
\* assembled at inference
FailedFastFor(mf, mt) ==
    (mf # <<>> \/ mt # <<>>) =>
        /\ FailsNaming(train.dataset.rows, mf, mt)
        /\ train.dataset.rows # "none" =>
                DefaultsAtInference(MappingOfBound(train.prepared.feature_cols))

MissingFor(cols) ==
    FailedFastFor(MissingIn(BACKEND_FEATURE_KEYS, FEATURE_ALIASES, Range(cols)),
                  MissingIn(TARGET_KEYS, TARGET_ALIASES, Range(cols)))

\* C25: whenever a feature or target key has no alias among the normalised
\* columns, preparation fails with ValueError before a model is fitted
\* and before a file of the model directory is written; the error names
\* the missing feature keys if there are any, else the missing target
\* keys, and for a dataset without rows it is "Dataset is empty." and names
\* none.  At inference a mapping that lacks the same feature keys is
\* assembled without error.
PreparationFailsFast ==
    HasPrepared => MissingFor(NormalizedColumns(train.dataset.columns))

\* a dataset with rows lacks soil_ph and yield_kg: the run has failed
\* naming soil_ph alone
PreparationFailsFastWitness ==
    /\ FailedBeforeFitting
    /\ train.dataset.rows = "enough"
    /\ "soil_ph" \notin DOMAIN train.prepared.feature_cols
    /\ "yield_kg" \notin DOMAIN train.prepared.target_cols
    /\ train.prepared.keys = <<"soil_ph">>

(***************************************************************************)
(* Properties of the quality gate and of the model directory.              *)
(***************************************************************************)
\* some target's R2, as fitted (field "holdout") or as the summary reports
\* it (field "reported"), is below the required one
BelowGate(field) ==
    \E i \in 1..Len(train.r2) : train.r2[i][field] < RequiredR2(TARGET_KEYS[i])

AllFitted == Len(train.r2) = Len(TARGET_KEYS)

\* the run publishes all-or-nothing with respect to the gate on the given
\* R2: a run with a target below the gate leaves the four production
\* artifacts as they were, dumps its four estimators under failed_training
\* and ends in RuntimeError; a production artifact is written only by a
\* run all of whose targets pass, and such a run ends with all four written
GateAllOrNothing(field) ==
    train.pc # "idle" =>
        /\ (AllFitted /\ BelowGate(field)) =>
                /\ model_dir.artifacts = train.before.artifacts
                /\ train.pc \in {"gate", "failed"}
                /\ train.pc = "failed" =>
                        /\ train.error = "RuntimeError"
                        /\ \A key \in Range(TARGET_KEYS) :
                                <<train.run, key>> \in model_dir.failed_training
        /\ model_dir.artifacts # train.before.artifacts =>
                AllFitted /\ ~BelowGate(field)
        /\ train.pc = "failed" => model_dir.artifacts = train.before.artifacts
        /\ train.pc = "done" =>
                /\ \A key \in Range(TARGET_KEYS) : model_dir.artifacts[key] = train.run
                /\ model_dir.failed_training = train.before.failed_training

MetadataKeptBy(failed_at_gate) ==
    (train.pc = "failed" /\ (AllFitted <=> failed_at_gate)) =>
        model_dir.metadata = train.before.metadata

\* C27 as stated: a run that does not publish, because the gate failed or
\* because the fit of a target raised, leaves model_metadata.json
\* unchanged, so that between runs the trained_at_utc of the health probe
\* is that of the production artifacts in place.  main writes the report
\* to model_metadata.json before it tests quality_gate_failures.
MetadataDescribesPublished ==
    /\ MetadataKeptBy(TRUE)
    /\ MetadataKeptBy(FALSE)
    /\ train.pc = "idle" =>
            \A key \in Range(TARGET_KEYS) :
                health(variant, models_loaded, model_dir).trained_at_utc
                    = model_dir.artifacts[key]

\* the columns bound to the feature keys are pairwise distinct
FeatureColumnsDistinct ==
    HasResolved =>
        \A k1, k2 \in DOMAIN train.prepared.feature_cols :
            k1 # k2 => train.prepared.feature_cols[k1] # train.prepared.feature_cols[k2]

\* C28 as stated: the columns bound to the feature keys are pairwise
\* distinct and none of them is the column bound to a target key.
\* grade_fine, grade_premium and grade_commercial are aliases of the
\* features previous_*_pct and of the targets *_grade_pct.
NoColumnBoundTwice ==
    /\ FeatureColumnsDistinct
    /\ HasResolved =>
        \A kf \in DOMAIN train.prepared.feature_cols :
            \A kt \in DOMAIN train.prepared.target_cols :
                train.prepared.feature_cols[kf] # train.prepared.target_cols[kt]

(***************************************************************************)
(* Properties of the labels of a response.                                 *)
(***************************************************************************)
\* the bodies of the prediction responses the backend holds
BackendBodiesHeld ==
    IF variant # "backend" THEN {}
    ELSE IF op = "postprocess" THEN {resp}
    ELSE IF op = "predict" /\ resp.status = 200 THEN {resp.body}
    ELSE {}

\* C29 as stated: the labelling rules applied to the fine, premium and
\* commercial percentages reported in a response give the dominant_grade
\* and grade_label of that response.  The labels are derived from the
\* normalized grades before these are rounded to 3 places.
LabelsMatchReported ==
    \A body \in BackendBodiesHeld :
        _derive_grade_labels(body.fine_grade_pct, body.premium_grade_pct,
                             body.commercial_grade_pct)
            = [dominant_grade |-> body.dominant_grade, grade_label |-> body.grade_label]

(***************************************************************************)
(* Properties of the fallback to the legacy vector.                        *)
(***************************************************************************)
\* what the four loaded models give for an assembled input
OutsOn(input) ==
    <<ModelPredict(models.yield, input), ModelPredict(models.fine, input),
      ModelPredict(models.premium, input), ModelPredict(models.commercial, input)>>

AllReturn(input) == \A i \in 1..4 : OutsOn(input)[i].k = "ok"

\* the response is the result of the four values the models give for this
\* one input
AnsweredFrom(input) ==
    /\ resp.status = 200
    /\ resp.body = BackendResult([i \in 1..4 |-> OutsOn(input)[i].v])

VectorsAssembled(events) ==
    {i \in 1..Len(events) : events[i].ev = "assembled" /\ events[i].path = "vector"}

\* C30: the four predictions of a backend response are computed from one
\* representation: all four from the frame if the four calls on the frame
\* return, and otherwise all four from the legacy vector; a response never
\* combines values of the two, and if the vector cannot be built or a call
\* on it raises the request fails with no result.
OneRepresentation ==
    (variant = "backend" /\ op = "predict" /\ log # <<>>) =>
        /\ log[1].ev = "assembled" /\ log[1].path = "frame"
        /\ IF AllReturn(log[1])
            THEN AnsweredFrom(log[1]) /\ VectorsAssembled(log) = {}
           ELSE IF VectorsAssembled(log) = {}
            THEN resp.status # 200 /\ resp.body = <<>>
           ELSE \A j \in VectorsAssembled(log) :
                    IF AllReturn(log[j]) THEN AnsweredFrom(log[j])
                    ELSE resp.status # 200 /\ resp.body = <<>>

\* the fine-grade call on the frame returned 60 and the premium-grade call
\* on the frame raised: the response is computed from the vector alone,
\* for which the fine-grade model gives another value
OneRepresentationWitness ==
    /\ variant = "backend"
    /\ op = "predict"
    /\ resp.status = 200
    /\ Len(log) >= 4
    /\ log[3].out = Ok(Flt(60))
    /\ log[4].out.k = "TypeError"
    /\ \E j \in VectorsAssembled(log) :
            /\ AnsweredFrom(log[j])
            /\ OutsOn(log[j])[2].v # Flt(60)

====
